---- MODULE Spec2Model ----
(***************************************************************************)
(* A model of the lowering core of mypyc's IR builder:                     *)
(*   - mypyc/irbuild/mapper.py      Mapper.type_to_rtype, fdef_to_sig      *)
(*   - mypyc/irbuild/specialize.py  the specializer registry and its rules *)
(*   - mypyc/irbuild/context.py     FuncInfo, ImplicitClass, GeneratorClass*)
(*   - mypy/semanal_shared.py       require_bool_literal_argument          *)
(* Each component has its own specification (SpecMapper, SpecLower, ...)   *)
(* over its own variables; the variables of the other components stay at   *)
(* their initial values.                                                   *)
(***************************************************************************)
EXTENDS Integers, Sequences, FiniteSets, TLC

VARIABLES
    type_to_ir,   \* Mapper.type_to_ir: TypeInfo -> ClassIR
    mtyp,         \* the argument of the last type_to_rtype call
    mret,         \* what that call returned (or the assertion it failed)
    stack,        \* the frames of a type_to_rtype call in progress
    ltyp,         \* the argument of the call in progress
    lret,         \* the outcome of the last finished call
    specializers, \* specialize.specializers: (name, typ) -> list of specializers
    registered,   \* how many times a specialize_function decorator has run
    attempt,      \* the specialization attempt whose result the caller holds
    tried,        \* the call of one specializer whose result the caller holds
    fdef_to_generator, \* Mapper.fdef_to_generator: FuncDef -> ClassIR
    sig,          \* the fdef_to_sig call whose result the caller holds
    fn_info,      \* the FuncInfo of the function being lowered
    gen_class,    \* the GeneratorClass of that function
    attached,     \* the attach operations so far: (object, link, value)
    ctx_read,     \* the read of a link or query whose result the caller holds
    gen_label,    \* the resume label slot of a generator object
    gen_run,      \* the last resume of that object: what it entered and produced
    env_slots,    \* the slots of the environment class of an enclosing function
    captures,     \* the captures made so far: (nested function, variable)
    trunc,        \* the truncate_literal call whose result the caller holds
    run,          \* the compiled call being executed: its code, inputs and outcome
    errors,       \* the failures reported to the semantic analyzer so far
    req           \* the require_bool_literal_argument call whose result the caller holds

mapperVars == <<type_to_ir, mtyp, mret>>
lowerVars  == <<stack, ltyp, lret>>
registryVars == <<specializers, registered, attempt>>
ruleVars == <<tried>>
sigVars == <<fdef_to_generator, sig>>
contextVars == <<fn_info, gen_class, attached, ctx_read>>
generatorVars == <<gen_label, gen_run>>
envVars == <<env_slots, captures>>
truncVars == <<trunc>>
execVars == <<run>>
boolVars == <<errors, req>>
vars == <<type_to_ir, mtyp, mret, stack, ltyp, lret, specializers, registered, attempt, tried,
          fdef_to_generator, sig, fn_info, gen_class, attached, ctx_read,
          gen_label, gen_run, env_slots, captures, trunc, run, errors, req>>

\* ------------------------------------------------------------------ bounds

\* The longest item list of a tuple or union type the model enumerates.
MaxItems == 2

\* ----------------------------------------------------------- small helpers

Range(s) == {s[i] : i \in DOMAIN s}

SeqsUpTo(S, n) == UNION {[1..k -> S] : k \in 0..n}

NonEmptySeqsUpTo(S, n) == UNION {[1..k -> S] : k \in 1..n}

\* Python's None, as a value of an optional attribute or argument.
None == [k |-> "None"]

\* A value of an optional attribute that is not None.
Some(v) == [k |-> "Some", v |-> v]

\* ------------------------------------------------------- runtime types

object_rprimitive    == [k |-> "RPrimitive", name |-> "builtins.object"]
int_rprimitive       == [k |-> "RPrimitive", name |-> "builtins.int"]
float_rprimitive     == [k |-> "RPrimitive", name |-> "builtins.float"]
bool_rprimitive      == [k |-> "RPrimitive", name |-> "builtins.bool"]
str_rprimitive       == [k |-> "RPrimitive", name |-> "builtins.str"]
bytes_rprimitive     == [k |-> "RPrimitive", name |-> "builtins.bytes"]
list_rprimitive      == [k |-> "RPrimitive", name |-> "builtins.list"]
dict_rprimitive      == [k |-> "RPrimitive", name |-> "builtins.dict"]
set_rprimitive       == [k |-> "RPrimitive", name |-> "builtins.set"]
frozenset_rprimitive == [k |-> "RPrimitive", name |-> "builtins.frozenset"]
tuple_rprimitive     == [k |-> "RPrimitive", name |-> "builtins.tuple"]
range_rprimitive     == [k |-> "RPrimitive", name |-> "builtins.range"]
none_rprimitive      == [k |-> "RPrimitive", name |-> "builtins.None"]
int64_rprimitive     == [k |-> "RPrimitive", name |-> "i64"]
int32_rprimitive     == [k |-> "RPrimitive", name |-> "i32"]
int16_rprimitive     == [k |-> "RPrimitive", name |-> "i16"]
uint8_rprimitive     == [k |-> "RPrimitive", name |-> "u8"]

RInstance(class_ir) == [k |-> "RInstance", class_ir |-> class_ir]

RTuple(types) == [k |-> "RTuple", types |-> types]

\* RUnion(items): a union compares equal to another by its set of items, so
\* the model keeps the items as a set.
RUnion(items) == [k |-> "RUnion", items |-> Range(items)]

\* RUnion.make_simplified_union: nested unions are flattened, duplicates
\* removed, and a union of one item is that item.
make_simplified_union(items) ==
    LET flat == UNION {IF it.k = "RUnion" THEN it.items ELSE {it} : it \in Range(items)}
    IN  IF Cardinality(flat) = 1
        THEN CHOOSE it \in flat : TRUE
        ELSE [k |-> "RUnion", items |-> flat]

\* The outcome of a call that failed an assert statement.
AssertionError == [k |-> "AssertionError"]

\* ------------------------------------------------------- static types

TypeInfo(fullname, mro, is_protocol) ==
    [fullname |-> fullname, mro |-> mro, is_protocol |-> is_protocol]

Builtin(fullname) == TypeInfo(fullname, <<fullname, "builtins.object">>, FALSE)

BuiltinNames ==
    {"builtins.int", "builtins.float", "builtins.str", "builtins.bytes",
     "builtins.list", "builtins.dict", "builtins.set", "builtins.frozenset",
     "builtins.tuple", "builtins.range", "builtins.complex",
     "mypy_extensions.i64", "mypy_extensions.i32", "mypy_extensions.i16",
     "mypy_extensions.u8"}

BoolInfo ==
    TypeInfo("builtins.bool", <<"builtins.bool", "builtins.int", "builtins.object">>, FALSE)

ObjectInfo == TypeInfo("builtins.object", <<"builtins.object">>, FALSE)

OrderedDictInfo ==
    TypeInfo("collections.OrderedDict",
             <<"collections.OrderedDict", "builtins.dict", "builtins.object">>, FALSE)

\* Classes of the compiled program: a plain class, a protocol, a dict
\* subclass and a named tuple class.
ClassC == TypeInfo("m.C", <<"m.C", "builtins.object">>, FALSE)
ClassP == TypeInfo("m.P", <<"m.P", "builtins.object">>, TRUE)
ClassD == TypeInfo("m.D", <<"m.D", "builtins.dict", "builtins.object">>, FALSE)
ClassNT == TypeInfo("m.NT", <<"m.NT", "builtins.tuple", "builtins.object">>, FALSE)

UserClasses == {ClassC, ClassP, ClassD}

TypeInfos ==
    {Builtin(n) : n \in BuiltinNames}
        \cup {BoolInfo, ObjectInfo, OrderedDictInfo, ClassNT} \cup UserClasses

\* The descriptor built for a compiled class.
ClassIR(info) == [k |-> "ClassIR", name |-> info.fullname]

Instance(info) == [k |-> "Instance", type |-> info]

TupleType(fallback, items) ==
    [k |-> "TupleType", partial_fallback |-> Instance(fallback), items |-> items]

UnionType(items) == [k |-> "UnionType", items |-> items]

TypeVarLikeType(upper_bound) == [k |-> "TypeVarLikeType", upper_bound |-> upper_bound]

\* PartialType: var_type is typ.var.type, None while the variable has no type.
PartialType(var_type) == [k |-> "PartialType", var_type |-> var_type]

LiteralType(fallback) == [k |-> "LiteralType", fallback |-> fallback]

CallableType    == [k |-> "CallableType"]
NoneTyp         == [k |-> "NoneTyp"]
AnyType         == [k |-> "AnyType"]
TypeType        == [k |-> "TypeType"]
Overloaded      == [k |-> "Overloaded"]
TypedDictType   == [k |-> "TypedDictType"]
UninhabitedType == [k |-> "UninhabitedType"]
UnboundType     == [k |-> "UnboundType"]
PlaceholderType == [k |-> "PlaceholderType"]
UnpackType      == [k |-> "UnpackType"]

\* The item types the enumerated tuple and union types are built from.
ItemLeaves ==
    {Instance(Builtin("builtins.int")), Instance(ClassC), Instance(ClassP),
     NoneTyp, PlaceholderType}

LeafTypes ==
    {Instance(info) : info \in TypeInfos}
        \cup {CallableType, NoneTyp, AnyType, TypeType, Overloaded, TypedDictType,
              UninhabitedType, UnboundType, PlaceholderType, UnpackType}

Level1Types ==
    {TupleType(fb, items) :
        fb \in {Builtin("builtins.tuple"), ClassNT},
        items \in SeqsUpTo(ItemLeaves \cup {UnpackType}, MaxItems)}
    \cup {UnionType(items) : items \in NonEmptySeqsUpTo(ItemLeaves, MaxItems)}
    \cup {TypeVarLikeType(t) : t \in ItemLeaves}
    \cup {PartialType(t) : t \in ItemLeaves \cup {None}}
    \cup {LiteralType(Instance(info)) :
            info \in {Builtin("builtins.int"), Builtin("builtins.str"), BoolInfo}}

\* Types nested one level deeper: a composite type as a bound, a variable's
\* type, the only item of a tuple or one of two members of a union.
NestLeaves == {Instance(Builtin("builtins.int")), Instance(ClassP), PlaceholderType}

NestedItems ==
    {UnionType(<<a, b>>) : a \in NestLeaves, b \in NestLeaves}
    \cup {TupleType(Builtin("builtins.tuple"), <<a>>) : a \in NestLeaves}
    \cup {TypeVarLikeType(a) : a \in NestLeaves}
    \cup {PartialType(a) : a \in NestLeaves \cup {None}}

Level2Types ==
    {TypeVarLikeType(t) : t \in NestedItems}
    \cup {PartialType(t) : t \in NestedItems}
    \cup {TupleType(Builtin("builtins.tuple"), <<t>>) : t \in NestedItems}
    \cup {UnionType(<<t, l>>) : t \in NestedItems, l \in NestLeaves}
    \cup {UnionType(<<l, t>>) : t \in NestedItems, l \in NestLeaves}

\* The arguments type_to_rtype is called with: a proper type (one that
\* get_proper_type returns unchanged) or None.
StaticTypes == {None} \cup LeafTypes \cup Level1Types \cup Level2Types

\* ------------------------------------------------- Mapper.type_to_rtype

\* find_unpack_in_list: the index of the variadic (unpack) item (as
\* Some(index)), or None.
find_unpack_in_list(items) ==
    IF \E i \in DOMAIN items : items[i].k = "UnpackType"
    THEN Some(CHOOSE i \in DOMAIN items :
            /\ items[i].k = "UnpackType"
            /\ \A j \in DOMAIN items : items[j].k = "UnpackType" => i <= j)
    ELSE None

\* InstanceRType with the compiled-class test moved before the dict-ancestry
\* test.
InstanceRTypeCompiledFirst(info) ==
    IF info.fullname = "builtins.int" THEN int_rprimitive
    ELSE IF info.fullname = "builtins.float" THEN float_rprimitive
    ELSE IF info.fullname = "builtins.bool" THEN bool_rprimitive
    ELSE IF info.fullname = "builtins.str" THEN str_rprimitive
    ELSE IF info.fullname = "builtins.bytes" THEN bytes_rprimitive
    ELSE IF info.fullname = "builtins.list" THEN list_rprimitive
    ELSE IF info \in DOMAIN type_to_ir THEN
        LET inst == RInstance(type_to_ir[info])
        IN  IF info.is_protocol
            THEN RUnion(<<inst, object_rprimitive>>)
            ELSE inst
    ELSE IF \E i \in DOMAIN info.mro : info.mro[i] = "builtins.dict" THEN dict_rprimitive
    ELSE IF info.fullname = "builtins.set" THEN set_rprimitive
    ELSE IF info.fullname = "builtins.frozenset" THEN frozenset_rprimitive
    ELSE IF info.fullname = "builtins.tuple" THEN tuple_rprimitive
    ELSE IF info.fullname = "builtins.range" THEN range_rprimitive
    ELSE IF info.fullname = "mypy_extensions.i64" THEN int64_rprimitive
    ELSE IF info.fullname = "mypy_extensions.i32" THEN int32_rprimitive
    ELSE IF info.fullname = "mypy_extensions.i16" THEN int16_rprimitive
    ELSE IF info.fullname = "mypy_extensions.u8" THEN uint8_rprimitive
    ELSE object_rprimitive

\* InstanceRType without the widening of a protocol to Union[protocol, object].
InstanceRTypeNoProtocol(info) ==
    IF info.fullname = "builtins.int" THEN int_rprimitive
    ELSE IF info.fullname = "builtins.float" THEN float_rprimitive
    ELSE IF info.fullname = "builtins.bool" THEN bool_rprimitive
    ELSE IF info.fullname = "builtins.str" THEN str_rprimitive
    ELSE IF info.fullname = "builtins.bytes" THEN bytes_rprimitive
    ELSE IF info.fullname = "builtins.list" THEN list_rprimitive
    ELSE IF \E i \in DOMAIN info.mro : info.mro[i] = "builtins.dict" THEN dict_rprimitive
    ELSE IF info.fullname = "builtins.set" THEN set_rprimitive
    ELSE IF info.fullname = "builtins.frozenset" THEN frozenset_rprimitive
    ELSE IF info.fullname = "builtins.tuple" THEN tuple_rprimitive
    ELSE IF info.fullname = "builtins.range" THEN range_rprimitive
    ELSE IF info \in DOMAIN type_to_ir THEN RInstance(type_to_ir[info])
    ELSE IF info.fullname = "mypy_extensions.i64" THEN int64_rprimitive
    ELSE IF info.fullname = "mypy_extensions.i32" THEN int32_rprimitive
    ELSE IF info.fullname = "mypy_extensions.i16" THEN int16_rprimitive
    ELSE IF info.fullname = "mypy_extensions.u8" THEN uint8_rprimitive
    ELSE object_rprimitive

\* The isinstance(typ, Instance) branch.
InstanceRType(info) ==
    IF info.fullname = "builtins.int" THEN int_rprimitive
    ELSE IF info.fullname = "builtins.float" THEN float_rprimitive
    ELSE IF info.fullname = "builtins.bool" THEN bool_rprimitive
    ELSE IF info.fullname = "builtins.str" THEN str_rprimitive
    ELSE IF info.fullname = "builtins.bytes" THEN bytes_rprimitive
    ELSE IF info.fullname = "builtins.list" THEN list_rprimitive
    ELSE IF \E i \in DOMAIN info.mro : info.mro[i] = "builtins.dict" THEN dict_rprimitive
    ELSE IF info.fullname = "builtins.set" THEN set_rprimitive
    ELSE IF info.fullname = "builtins.frozenset" THEN frozenset_rprimitive
    ELSE IF info.fullname = "builtins.tuple" THEN tuple_rprimitive
    ELSE IF info.fullname = "builtins.range" THEN range_rprimitive
    ELSE IF info \in DOMAIN type_to_ir THEN
        LET inst == RInstance(type_to_ir[info])
        IN  IF info.is_protocol
            THEN RUnion(<<inst, object_rprimitive>>)
            ELSE inst
    ELSE IF info.fullname = "mypy_extensions.i64" THEN int64_rprimitive
    ELSE IF info.fullname = "mypy_extensions.i32" THEN int32_rprimitive
    ELSE IF info.fullname = "mypy_extensions.i16" THEN int16_rprimitive
    ELSE IF info.fullname = "mypy_extensions.u8" THEN uint8_rprimitive
    ELSE object_rprimitive

\* TupleIsUnboxed without the test for a variadic item.
TupleIsUnboxedIgnoringUnpack(typ) ==
    typ.partial_fallback.type.fullname = "builtins.tuple"

\* The test of the isinstance(typ, TupleType) branch: a raw tuple, neither a
\* NamedTuple nor variadic.
TupleIsUnboxed(typ) ==
    /\ typ.partial_fallback.type.fullname = "builtins.tuple"
    /\ find_unpack_in_list(typ.items) = None

\* UnionRType building the union without simplifying it.
UnionRTypeUnsimplified(items) == RUnion(items)

\* The isinstance(typ, UnionType) branch, given the lowered items.
UnionRType(items) == make_simplified_union(items)

\* "assert typ.var.type is not None" of the PartialType branch.
PartialVarAsserted(typ) == typ.var_type # None

\* UnexpectedType falling back to the boxed object instead of asserting.
UnexpectedTypeBoxed == object_rprimitive

\* What the call does with a type none of its branches recognises.
UnexpectedType == AssertionError

\* What the call does with no type at all (typ is None).
AbsentRType == object_rprimitive

\* The (UninhabitedType, UnboundType) branch.
UninhabitedOrUnboundRType == object_rprimitive

\* RecursiveCalls with the type-variable branch calling itself on the type
\* variable instead of its upper bound.
RecursiveCallsOnSelf(typ) ==
    IF typ = None THEN <<>>
    ELSE IF typ.k = "TupleType" THEN (IF TupleIsUnboxed(typ) THEN typ.items ELSE <<>>)
    ELSE IF typ.k = "UnionType" THEN typ.items
    ELSE IF typ.k = "TypeVarLikeType" THEN <<typ>>
    ELSE IF typ.k = "PartialType" THEN (IF PartialVarAsserted(typ) THEN <<typ.var_type>> ELSE <<>>)
    ELSE IF typ.k = "LiteralType" THEN <<typ.fallback>>
    ELSE <<>>

\* The arguments of the recursive calls one call of type_to_rtype makes, in
\* the order it makes them.
RecursiveCalls(typ) ==
    IF typ = None THEN <<>>
    ELSE IF typ.k = "TupleType" THEN (IF TupleIsUnboxed(typ) THEN typ.items ELSE <<>>)
    ELSE IF typ.k = "UnionType" THEN typ.items
    ELSE IF typ.k = "TypeVarLikeType" THEN <<typ.upper_bound>>
    ELSE IF typ.k = "PartialType" THEN (IF PartialVarAsserted(typ) THEN <<typ.var_type>> ELSE <<>>)
    ELSE IF typ.k = "LiteralType" THEN <<typ.fallback>>
    ELSE <<>>

\* What one call of type_to_rtype returns, given what its recursive calls
\* returned (rs, one result per call of RecursiveCalls).
Return(typ, rs) ==
    IF typ = None THEN AbsentRType
    ELSE IF typ.k = "Instance" THEN InstanceRType(typ.type)
    ELSE IF typ.k = "TupleType" THEN
        (IF TupleIsUnboxed(typ) THEN RTuple(rs) ELSE tuple_rprimitive)
    ELSE IF typ.k = "CallableType" THEN object_rprimitive
    ELSE IF typ.k = "NoneTyp" THEN none_rprimitive
    ELSE IF typ.k = "UnionType" THEN UnionRType(rs)
    ELSE IF typ.k = "AnyType" THEN object_rprimitive
    ELSE IF typ.k = "TypeType" THEN object_rprimitive
    ELSE IF typ.k = "TypeVarLikeType" THEN rs[1]
    ELSE IF typ.k = "PartialType" THEN
        (IF PartialVarAsserted(typ) THEN rs[1] ELSE AssertionError)
    ELSE IF typ.k = "Overloaded" THEN object_rprimitive
    ELSE IF typ.k = "TypedDictType" THEN dict_rprimitive
    ELSE IF typ.k = "LiteralType" THEN rs[1]
    ELSE IF typ.k \in {"UninhabitedType", "UnboundType"} THEN UninhabitedOrUnboundRType
    ELSE UnexpectedType

RECURSIVE type_to_rtype(_)
\* Mapper.type_to_rtype: a failed assertion in a recursive call ends the
\* whole call.
type_to_rtype(typ) ==
    LET calls == RecursiveCalls(typ)
        rs == [i \in DOMAIN calls |-> type_to_rtype(calls[i])]
    IN  IF \E i \in DOMAIN rs : rs[i] = AssertionError
        THEN AssertionError
        ELSE Return(typ, rs)

\* ------------------------------------------------------- Mapper.fdef_to_sig

\* mypy.nodes.ArgKind
ARG_POS   == "ARG_POS"
ARG_NAMED == "ARG_NAMED"
ARG_STAR  == "ARG_STAR"
ARG_STAR2 == "ARG_STAR2"

\* The type of an annotated function: a CallableType with its argument
\* types, kinds and names (None for an argument the type lists without a
\* name) and its return type.
FuncType(arg_types, arg_kinds, arg_names, ret_type) ==
    [k |-> "CallableType", arg_types |-> arg_types, arg_kinds |-> arg_kinds,
     arg_names |-> arg_names, ret_type |-> ret_type]

\* Argument: the variable it binds and whether it is position-only.
Argument(variable_name, pos_only) == [variable_name |-> variable_name, pos_only |-> pos_only]

\* A FuncDef. id stands for the identity of the object, which is what
\* fdef_to_generator is keyed by; arguments is None for a deserialized
\* FuncDef, which has no such attribute, and Some(list) otherwise; info tells whether the function is
\* a method; flags holds is_coroutine, is_generator and is_decorated.
FuncDef(id, name, type, arguments, arg_kinds, arg_names, flags, info) ==
    [id |-> id, name |-> name, type |-> type, arguments |-> arguments,
     arg_kinds |-> arg_kinds, arg_names |-> arg_names, is_coroutine |-> flags.is_coroutine,
     is_generator |-> flags.is_generator, is_decorated |-> flags.is_decorated, info |-> info]

RuntimeArg(name, type, kind, pos_only) ==
    [name |-> name, type |-> type, kind |-> kind, pos_only |-> pos_only]

FuncSignature(args, ret_type) == [k |-> "FuncSignature", args |-> args, ret_type |-> ret_type]

\* isinstance(typ, CallableType)
IsCallableType(typ) == typ.k = "CallableType"

KeyError == [k |-> "KeyError"]

AttributeError == [k |-> "AttributeError"]

IsException(v) == v \in {AssertionError, KeyError, AttributeError}

\* Mapper.get_arg_rtype
get_arg_rtype(typ, kind) ==
    IF kind = ARG_STAR
    THEN tuple_rprimitive
    ELSE IF kind = ARG_STAR2
    THEN dict_rprimitive
    ELSE type_to_rtype(typ)

\* zip(...): as long as the shortest of the lists
Shortest(lens) == CHOOSE n \in lens : \A m \in lens : n <= m

ComparisonDunders == {"__eq__", "__ne__", "__lt__", "__gt__", "__le__", "__ge__"}

DeclaredRetIgnoringGenerator(fdef, generators) ==
    IF IsCallableType(fdef.type)
    THEN type_to_rtype(fdef.type.ret_type)
    ELSE IF fdef.name = "__init__" /\ fdef.info
    THEN none_rprimitive
    ELSE object_rprimitive

\* The return type of line 177 to 193: of an annotated function, the class
\* of its generator or the lowering of its declared return type; of an
\* unannotated one, None for __init__ methods and object otherwise.
DeclaredRet(fdef, generators) ==
    IF IsCallableType(fdef.type)
    THEN IF (fdef.is_coroutine \/ fdef.is_generator) /\ ~fdef.is_decorated
         THEN (IF fdef.id \in DOMAIN generators
               THEN RInstance(generators[fdef.id])
               ELSE KeyError)
         ELSE type_to_rtype(fdef.type.ret_type)
    ELSE IF fdef.name = "__init__" /\ fdef.info
    THEN none_rprimitive
    ELSE object_rprimitive

\* The argument types of line 171 to 174 and 186.
ArgTypes(fdef) ==
    IF IsCallableType(fdef.type)
    THEN [i \in 1..Shortest({Len(fdef.type.arg_types), Len(fdef.type.arg_kinds)}) |->
            get_arg_rtype(fdef.type.arg_types[i], fdef.type.arg_kinds[i])]
    ELSE [i \in DOMAIN fdef.arguments.v |-> object_rprimitive]

\* The position-only flags of line 175 and 187.
ArgPosOnlys(fdef) ==
    IF IsCallableType(fdef.type)
    THEN [i \in DOMAIN fdef.type.arg_names |-> fdef.type.arg_names[i] = None]
    ELSE [i \in DOMAIN fdef.arguments.v |-> fdef.arguments.v[i].pos_only]

\* The argument names of line 203 to 206; name or "" for a deserialized FuncDef.
ArgNamesOf(fdef) ==
    IF fdef.arguments # None
    THEN [i \in DOMAIN fdef.arguments.v |-> fdef.arguments.v[i].variable_name]
    ELSE [i \in DOMAIN fdef.arg_names |->
            IF fdef.arg_names[i] = None THEN "" ELSE fdef.arg_names[i].v]

ForcedRetAlways(fdef, strict_dunders_typing, ret) ==
    IF fdef.name \in ComparisonDunders THEN object_rprimitive ELSE ret

\* The return type after line 215 to 221.
ForcedRet(fdef, strict_dunders_typing, ret) ==
    IF ~strict_dunders_typing /\ fdef.name \in ComparisonDunders
    THEN object_rprimitive
    ELSE ret

RuntimeArgsReversed(arg_names, arg_kinds, arg_types, arg_pos_onlys) ==
    LET n == Shortest({Len(arg_names), Len(arg_kinds), Len(arg_types), Len(arg_pos_onlys)})
    IN  [i \in 1..n |-> RuntimeArg(arg_names[n + 1 - i], arg_types[n + 1 - i],
                                    arg_kinds[n + 1 - i], arg_pos_onlys[n + 1 - i])]

\* The list of RuntimeArg of line 208 to 213.
RuntimeArgs(arg_names, arg_kinds, arg_types, arg_pos_onlys) ==
    LET n == Shortest({Len(arg_names), Len(arg_kinds), Len(arg_types), Len(arg_pos_onlys)})
    IN  [i \in 1..n |-> RuntimeArg(arg_names[i], arg_types[i], arg_kinds[i], arg_pos_onlys[i])]

\* Mapper.fdef_to_sig: the FuncSignature, or the exception that ends the
\* call: the failed assertion of a type_to_rtype call, the KeyError of a
\* generator that has no class, the AttributeError of reading the arguments
\* of an unannotated deserialized FuncDef.
fdef_to_sig(fdef, strict_dunders_typing, generators) ==
    LET annotated == IsCallableType(fdef.type)
    IN  IF ~annotated /\ fdef.arguments = None
        THEN AttributeError
        ELSE LET arg_types == ArgTypes(fdef)
                 ret == DeclaredRet(fdef, generators)
             IN  IF \E i \in DOMAIN arg_types : arg_types[i] = AssertionError
                 THEN AssertionError
                 ELSE IF IsException(ret)
                 THEN ret
                 ELSE FuncSignature(
                          RuntimeArgs(ArgNamesOf(fdef), fdef.arg_kinds, arg_types,
                                      ArgPosOnlys(fdef)),
                          ForcedRet(fdef, strict_dunders_typing, ret))

\* =======================================================================
\* mypyc/irbuild/specialize.py
\* =======================================================================

\* ------------------------------------------------------------ AST nodes

\* The text of a string literal is a sequence of characters.
Text_empty   == <<>>
Text_x       == <<"x">>
Text_utf8    == <<"u", "t", "f", "8">>
Text_UTF_8   == <<"U", "T", "F", "-", "8">>
Text_ascii   == <<"a", "s", "c", "i", "i">>
Text_Latin_1 == <<"L", "a", "t", "i", "n", "_", "1">>
Text_koi8    == <<"k", "o", "i", "8">>
Text_strict  == <<"s", "t", "r", "i", "c", "t">>
Text_ignore  == <<"i", "g", "n", "o", "r", "e">>
Text_fmt_str == <<"{", "}">>
Text_fmt_int == <<"{", ":", "d", "}">>
Text_fmt_str_int == <<"{", "}", "{", ":", "d", "}">>
Text_fmt_repr == <<"{", "!", "r", "}">>
Text_fmt_nested == <<"{", ":", "{", "}", "}">>

StrExpr(value) == [cls |-> "StrExpr", value |-> value, rtype |-> str_rprimitive]

BytesExpr(value) == [cls |-> "BytesExpr", value |-> value, rtype |-> bytes_rprimitive]

IntExpr(value) == [cls |-> "IntExpr", value |-> value, rtype |-> int_rprimitive]

\* A generator expression: the number of its for clauses (gen.sequences), of
\* the conditions of its first clause (gen.condlists[0]) and the type of the
\* first sequence.
GeneratorExpr(nseq, ncond, seq_rtype) ==
    [cls |-> "GeneratorExpr", nseq |-> nseq, ncond |-> ncond, seq_rtype |-> seq_rtype,
     rtype |-> object_rprimitive]

ListExpr(items) == [cls |-> "ListExpr", items |-> items, rtype |-> list_rprimitive]

DictExpr(items) == [cls |-> "DictExpr", items |-> items, rtype |-> dict_rprimitive]

TupleExpr(items) == [cls |-> "TupleExpr", items |-> items, rtype |-> tuple_rprimitive]

\* A name: its fullname, the fullname of the node it refers to (None when it
\* refers to none), the class descriptor when it names a compiled class, and
\* the type builder.node_type gives it.
NameExpr(fullname, node, class_ir, rtype) ==
    [cls |-> "NameExpr", fullname |-> fullname, node |-> node, class_ir |-> class_ir,
     rtype |-> rtype]

MemberExpr(expr, name, fullname) ==
    [cls |-> "MemberExpr", expr |-> expr, name |-> name, fullname |-> fullname,
     node |-> None, class_ir |-> None, rtype |-> object_rprimitive]

CallExpr(callee, args, arg_kinds, arg_names, rtype) ==
    [cls |-> "CallExpr", callee |-> callee, args |-> args, arg_kinds |-> arg_kinds,
     arg_names |-> arg_names, rtype |-> rtype]

\* isinstance(node, RefExpr)
IsRefExpr(node) == node.cls \in {"NameExpr", "MemberExpr"}

\* A class descriptor as the specializers read it.
NativeClassIR(name, methods, is_ext_class, inherits_python, allow_interpreted_subclasses) ==
    [k |-> "ClassIR", name |-> name, methods |-> methods, is_ext_class |-> is_ext_class,
     inherits_python |-> inherits_python,
     allow_interpreted_subclasses |-> allow_interpreted_subclasses]

\* ClassIR.has_method
has_method(class_ir, name) == name \in class_ir.methods

\* ------------------------------------------------------------ the builder
\* What a specializer does through the builder is the sequence of the
\* operations it emits (evaluating an expression, adding an instruction,
\* activating a block) and the entries of builder.types it overwrites.

\* The outcome of one specializer call: the Value it returned (None when it
\* declined), what it emitted and the nodes whose type it overwrote.
Outcome(val, ops, types) == [val |-> val, exc |-> None, ops |-> ops, types |-> types]

\* A specializer call that raised instead of returning.
Raised(exc, ops) == [val |-> None, exc |-> Some(exc), ops |-> ops, types |-> {}]

Declined == Outcome(None, <<>>, {})

Emitted(val, ops) == Outcome(val, ops, {})

\* builder.node_type
node_type(node) == node.rtype

\* builder.accept(node): the Value of the expression, and its evaluation.
short_int_rprimitive == [k |-> "RPrimitive", name |-> "short_int"]

c_int_rprimitive == [k |-> "RPrimitive", name |-> "c_int"]

\* ops.Integer: an integer literal of the given type.
Integer(value, rtype) == [v |-> "Integer", value |-> value, type |-> rtype]

\* ops.Register
Register(rtype) == [v |-> "Register", type |-> rtype]

Accepted(node) ==
    IF node.cls = "IntExpr"
    THEN Integer(node.value, short_int_rprimitive)
    ELSE [v |-> "accept", node |-> node]

AcceptBorrowOp(node, can_borrow) == [op |-> "accept", node |-> node, can_borrow |-> can_borrow]

AcceptOp(node) == AcceptBorrowOp(node, FALSE)

Assign(dest, src) == [op |-> "assign", dest |-> dest, src |-> src]

Goto(block) == [op |-> "goto", block |-> block]

Activate(block) == [op |-> "activate_block", block |-> block]

Branch(cond, true_block, false_block) ==
    [op |-> "add_bool_branch", cond |-> cond, true |-> true_block, false |-> false_block]

\* An instruction or primitive call on the given operands, and its Value.
Instr(name, args) == [op |-> name, args |-> args]

InstrValue(name, args) == [v |-> name, args |-> args]

AcceptAll(nodes) == [i \in DOMAIN nodes |-> AcceptOp(nodes[i])]

Op(name) == [op |-> name]

Result(name) == [v |-> name]

\* builder.coerce(src, target_type, line)
CoerceOp(src, type) == [op |-> "coerce", src |-> src, type |-> type]

Coerced(src, type) == [v |-> "coerce", src |-> src, type |-> type]

\* for_helpers.comprehension_helper: the loop over the generator's clauses,
\* with the given statements as the body of the innermost loop.
ComprehensionOp(gen, body) == [op |-> "comprehension", gen |-> gen, body |-> body]

\* for_helpers.translate_list_comprehension, translate_set_comprehension
ListComprehensionOp(gen) == [op |-> "list_comprehension", gen |-> gen]

SetComprehensionOp(gen) == [op |-> "set_comprehension", gen |-> gen]

\* for_helpers.sequence_from_generator_preallocate_helper: a single for clause
\* without condition over a list, tuple or str is compiled into one
\* allocation of the source's length and indexed stores; otherwise nothing is
\* emitted and None returned.
sequence_from_generator_preallocate_helper(gen, empty_op, set_item_op) ==
    IF /\ gen.nseq = 1
       /\ gen.ncond = 0
       /\ gen.seq_rtype \in {list_rprimitive, tuple_rprimitive, str_rprimitive}
    THEN Emitted(Result(empty_op),
                 <<[op |-> "accept_sequence", gen |-> gen],
                   [op |-> empty_op, length |-> "len(sequence)"],
                   [op |-> "for_each_index", gen |-> gen, body |-> <<Op("accept_left_expr"), Op(set_item_op)>>]>>)
    ELSE Declined

\* format_str_tokenizer.tokenizer_format_call: the format operations of a
\* format string, or None when it has a specifier that is not supported.
tokenizer_format_call(format_str) ==
    IF format_str = Text_empty THEN Some(<<>>)
    ELSE IF format_str = Text_fmt_str THEN Some(<<"STR">>)
    ELSE IF format_str = Text_fmt_int THEN Some(<<"INT">>)
    ELSE IF format_str = Text_fmt_str_int THEN Some(<<"STR", "INT">>)
    ELSE None

\* format_str_tokenizer.convert_format_expr_to_str: the expressions converted
\* to strings, or None, with nothing emitted, when the operations and the
\* expressions do not match.
convert_format_expr_to_str(format_ops, exprs) ==
    IF /\ Len(format_ops) = Len(exprs)
       /\ \A i \in DOMAIN exprs :
             format_ops[i] = "INT" => node_type(exprs[i]) = int_rprimitive
    THEN Emitted(Some([i \in DOMAIN exprs |-> [v |-> "to_str", node |-> exprs[i]]]),
                 [i \in DOMAIN exprs |-> [op |-> "to_str", fmt |-> format_ops[i], node |-> exprs[i]]])
    ELSE Declined

\* format_str_tokenizer.join_formatted_strings
JoinOp == Op("join_formatted_strings")

\* builder.flatten_classes: the class descriptors a class reference, or a
\* tuple of them, names; None when one of them is no compiled class.
flatten_classes(arg) ==
    IF IsRefExpr(arg)
    THEN (IF arg.class_ir # None THEN Some(<<arg.class_ir>>) ELSE None)
    ELSE IF \A i \in DOMAIN arg.items : IsRefExpr(arg.items[i]) /\ arg.items[i].class_ir # None
         THEN Some([i \in DOMAIN arg.items |-> arg.items[i].class_ir])
         ELSE None

\* ------------------------------------------------------------ the rules

\* str.split("."), on the qualified names of the calls modelled.
split_dot(fullname) ==
    CASE fullname = "builtins.abs"        -> <<"builtins", "abs">>
      [] fullname = "builtins.int"        -> <<"builtins", "int">>
      [] fullname = "builtins.float"      -> <<"builtins", "float">>
      [] fullname = "builtins.complex"    -> <<"builtins", "complex">>
      [] fullname = "mypy_extensions.i64" -> <<"mypy_extensions", "i64">>
      [] fullname = "mypy_extensions.i32" -> <<"mypy_extensions", "i32">>
      [] fullname = "mypy_extensions.i16" -> <<"mypy_extensions", "i16">>
      [] fullname = "mypy_extensions.u8"  -> <<"mypy_extensions", "u8">>
      [] OTHER                            -> <<fullname>>

AllPos(arg_kinds) == \A i \in DOMAIN arg_kinds : arg_kinds[i] = ARG_POS

translate_globals(expr, callee) ==
    IF Len(expr.args) = 0
    THEN Emitted(Result("globals_dict"), <<Op("load_globals_dict")>>)
    ELSE Declined

translate_builtins_with_unary_dunder(expr, callee) ==
    IF Len(expr.args) = 1 /\ expr.arg_kinds = <<ARG_POS>> /\ callee.cls = "NameExpr"
    THEN LET arg == expr.args[1]
             arg_typ == node_type(arg)
             parts == split_dot(callee.fullname)
         IN  IF Len(parts) < 2
             THEN Raised("IndexError", <<>>)
             ELSE LET shortname == parts[2]
                      method == IF shortname \in {"i64", "i32", "i16", "u8"}
                                THEN "__int__"
                                ELSE "__" \o shortname \o "__"
                  IN  IF arg_typ.k = "RInstance" /\ has_method(arg_typ.class_ir, method)
                      THEN Emitted(InstrValue("gen_method_call", <<Accepted(arg), method>>),
                                   <<AcceptOp(arg), Instr("gen_method_call", <<Accepted(arg), method>>)>>)
                      ELSE Declined
    ELSE Declined

translate_len(expr, callee) ==
    IF Len(expr.args) = 1 /\ expr.arg_kinds = <<ARG_POS>>
    THEN LET arg == expr.args[1]
             expr_rtype == node_type(arg)
         IN  IF expr_rtype.k = "RTuple"
             THEN Emitted(Integer(Len(expr_rtype.types), short_int_rprimitive), <<AcceptOp(arg)>>)
             ELSE LET borrow == (node_type(arg) = list_rprimitive)
                  IN  Emitted(InstrValue("builtin_len", <<Accepted(arg)>>),
                              <<AcceptBorrowOp(arg, borrow), Instr("builtin_len", <<Accepted(arg)>>)>>)
    ELSE Declined

dict_methods_fast_path(expr, callee) ==
    IF ~(Len(expr.args) = 1 /\ expr.arg_kinds = <<ARG_POS>>)
    THEN Declined
    ELSE LET arg == expr.args[1]
         IN  IF ~(arg.cls = "CallExpr" /\ Len(arg.args) = 0 /\ arg.callee.cls = "MemberExpr")
             THEN Declined
             ELSE LET base == arg.callee.expr
                      attr == arg.callee.name
                      rtype == node_type(base)
                  IN  IF ~(rtype = dict_rprimitive /\ attr \in {"keys", "values", "items"})
                      THEN Declined
                      ELSE LET obj == Accepted(base)
                               desc == IF attr = "keys" THEN "dict_keys_op"
                                       ELSE IF attr = "values" THEN "dict_values_op"
                                       ELSE "dict_items_op"
                           IN  Emitted(InstrValue(desc, <<obj>>),
                                       <<AcceptOp(base), Instr(desc, <<obj>>)>>)

translate_list_from_generator_call(expr, callee) ==
    IF /\ Len(expr.args) = 1
       /\ expr.arg_kinds[1] = ARG_POS
       /\ expr.args[1].cls = "GeneratorExpr"
    THEN sequence_from_generator_preallocate_helper(
             expr.args[1], "new_list_op_with_length", "new_list_set_item_op")
    ELSE Declined

translate_tuple_from_generator_call(expr, callee) ==
    IF /\ Len(expr.args) = 1
       /\ expr.arg_kinds[1] = ARG_POS
       /\ expr.args[1].cls = "GeneratorExpr"
    THEN sequence_from_generator_preallocate_helper(
             expr.args[1], "new_tuple_with_length", "new_tuple_set_item_op")
    ELSE Declined

translate_set_from_generator_call(expr, callee) ==
    IF /\ Len(expr.args) = 1
       /\ expr.arg_kinds[1] = ARG_POS
       /\ expr.args[1].cls = "GeneratorExpr"
    THEN Emitted(Result("set_comprehension"), <<SetComprehensionOp(expr.args[1])>>)
    ELSE Declined

\* The rule, were the comparison made the other way round: first against
\* second.
faster_min_max_first_against_second(expr, callee) ==
    IF expr.arg_kinds = <<ARG_POS, ARG_POS>>
    THEN LET x == Accepted(expr.args[1])
             y == Accepted(expr.args[2])
             result == Register(node_type(expr))
             cmp == IF callee.fullname = "builtins.min" THEN "<" ELSE ">"
             comparison == InstrValue("binary_op", <<x, y, cmp>>)
         IN  Emitted(result,
                     << AcceptOp(expr.args[1]), AcceptOp(expr.args[2]),
                        Instr("binary_op", <<x, y, cmp>>),
                        Branch(comparison, "false_block", "true_block"),
                        Activate("true_block"),
                        CoerceOp(y, result.type),
                        Assign(result, Coerced(y, result.type)),
                        Goto("next_block"),
                        Activate("false_block"),
                        CoerceOp(x, result.type),
                        Assign(result, Coerced(x, result.type)),
                        Goto("next_block"),
                        Activate("next_block") >>)
    ELSE Declined

faster_min_max(expr, callee) ==
    IF expr.arg_kinds = <<ARG_POS, ARG_POS>>
    THEN LET x == Accepted(expr.args[1])
             y == Accepted(expr.args[2])
             result == Register(node_type(expr))
             cmp == IF callee.fullname = "builtins.min" THEN "<" ELSE ">"
             comparison == InstrValue("binary_op", <<y, x, cmp>>)
         IN  Emitted(result,
                     << AcceptOp(expr.args[1]), AcceptOp(expr.args[2]),
                        Instr("binary_op", <<y, x, cmp>>),
                        Branch(comparison, "true_block", "false_block"),
                        Activate("true_block"),
                        CoerceOp(y, result.type),
                        Assign(result, Coerced(y, result.type)),
                        Goto("next_block"),
                        Activate("false_block"),
                        CoerceOp(x, result.type),
                        Assign(result, Coerced(x, result.type)),
                        Goto("next_block"),
                        Activate("next_block") >>)
    ELSE Declined

\* expr.args[1:]
Rest(args) == SubSeq(args, 2, Len(args))

translate_safe_generator_call(expr, callee) ==
    IF /\ Len(expr.args) > 0
       /\ expr.arg_kinds[1] = ARG_POS
       /\ expr.args[1].cls = "GeneratorExpr"
    THEN LET rest == Rest(expr.args)
             values == <<Result("list_comprehension")>> \o [i \in DOMAIN rest |-> Accepted(rest[i])]
             argops == <<ListComprehensionOp(expr.args[1])>> \o AcceptAll(rest)
         IN  IF callee.cls = "MemberExpr"
             THEN Emitted(InstrValue("gen_method_call", <<Accepted(callee.expr), callee.name, values>>),
                          <<AcceptOp(callee.expr)>> \o argops
                          \o <<Instr("gen_method_call", <<Accepted(callee.expr), callee.name, values>>)>>)
             ELSE Emitted(InstrValue("call_refexpr_with_args", <<callee.fullname, values>>),
                          argops \o <<Instr("call_refexpr_with_args", <<callee.fullname, values>>)>>)
    ELSE Declined

\* The helper, were the true block to fall through into the loop instead of
\* going to the exit block.
any_all_helper_without_exit(gen, initial_value, modify, new_value) ==
    LET retval == Register(bool_rprimitive)
        gen_inner_stmts ==
            <<Op("accept_left_expr")>> \o modify
            \o << Branch("comparison", "true_block", "false_block"),
                  Activate("true_block"),
                  Assign(retval, new_value),
                  Activate("false_block") >>
    IN  Emitted(retval,
                << Assign(retval, initial_value),
                   ComprehensionOp(gen, gen_inner_stmts),
                   Op("goto_and_activate_exit_block") >>)

\* modify is the instructions applied to the element before the branch
\* ("lambda x: x" adds none).
any_all_helper(gen, initial_value, modify, new_value) ==
    LET retval == Register(bool_rprimitive)
        gen_inner_stmts ==
            <<Op("accept_left_expr")>> \o modify
            \o << Branch("comparison", "true_block", "false_block"),
                  Activate("true_block"),
                  Assign(retval, new_value),
                  Goto("exit_block"),
                  Activate("false_block") >>
    IN  Emitted(retval,
                << Assign(retval, initial_value),
                   ComprehensionOp(gen, gen_inner_stmts),
                   Op("goto_and_activate_exit_block") >>)

translate_any_call(expr, callee) ==
    IF /\ Len(expr.args) = 1
       /\ expr.arg_kinds = <<ARG_POS>>
       /\ expr.args[1].cls = "GeneratorExpr"
    THEN any_all_helper(expr.args[1], Result("false"), <<>>, Result("true"))
    ELSE Declined

translate_all_call(expr, callee) ==
    IF /\ Len(expr.args) = 1
       /\ expr.arg_kinds = <<ARG_POS>>
       /\ expr.args[1].cls = "GeneratorExpr"
    THEN any_all_helper(expr.args[1], Result("true"), <<Instr("unary_op", <<"not">>)>>, Result("false"))
    ELSE Declined

translate_sum_call(expr, callee) ==
    IF ~(/\ Len(expr.args) \in {1, 2}
         /\ expr.arg_kinds[1] = ARG_POS
         /\ expr.args[1].cls = "GeneratorExpr")
    THEN Declined
    ELSE IF Len(expr.args) = 2 /\ expr.arg_kinds[2] \notin {ARG_POS, ARG_NAMED}
    THEN Declined
    ELSE LET start_expr == IF Len(expr.args) = 2 THEN expr.args[2] ELSE IntExpr(0)
             gen_expr == expr.args[1]
             target_type == node_type(expr)
             retval == Register(target_type)
             gen_inner_stmts ==
                 << Op("accept_left_expr"),
                    Instr("binary_op", <<retval, "call_expr", "+">>),
                    Assign(retval, InstrValue("binary_op", <<retval, "call_expr", "+">>)) >>
         IN  Emitted(retval,
                     << AcceptOp(start_expr),
                        CoerceOp(Accepted(start_expr), target_type),
                        Assign(retval, Coerced(Accepted(start_expr), target_type)),
                        ComprehensionOp(gen_expr, gen_inner_stmts) >>)

\* Overwrites the type recorded for the call and declines.
translate_dataclasses_field_call(expr, callee) == Outcome(None, <<>>, {expr})

\* The rule, were the default evaluated after the loop, where it is needed.
translate_next_call_default_after_loop(expr, callee) ==
    IF ~(/\ expr.arg_kinds \in {<<ARG_POS>>, <<ARG_POS, ARG_POS>>}
         /\ expr.args[1].cls = "GeneratorExpr")
    THEN Declined
    ELSE LET gen == expr.args[1]
             retval == Register(node_type(expr))
             gen_inner_stmts ==
                 << Op("accept_left_expr"),
                    Assign(retval, Result("left_expr")),
                    Goto("exit_block") >>
             tail == IF Len(expr.args) > 1
                     THEN <<AcceptOp(expr.args[2]), Assign(retval, Accepted(expr.args[2])),
                            Goto("exit_block")>>
                     ELSE <<Op("RaiseStandardError(STOP_ITERATION)"), Op("Unreachable")>>
         IN  Emitted(retval,
                     <<ComprehensionOp(gen, gen_inner_stmts)>> \o tail
                     \o <<Activate("exit_block")>>)

translate_next_call(expr, callee) ==
    IF ~(/\ expr.arg_kinds \in {<<ARG_POS>>, <<ARG_POS, ARG_POS>>}
         /\ expr.args[1].cls = "GeneratorExpr")
    THEN Declined
    ELSE LET gen == expr.args[1]
             retval == Register(node_type(expr))
             default_val == IF Len(expr.args) > 1 THEN Accepted(expr.args[2]) ELSE None
             default_ops == IF Len(expr.args) > 1 THEN <<AcceptOp(expr.args[2])>> ELSE <<>>
             gen_inner_stmts ==
                 << Op("accept_left_expr"),
                    Assign(retval, Result("left_expr")),
                    Goto("exit_block") >>
             tail == IF default_val # None
                     THEN <<Assign(retval, default_val), Goto("exit_block")>>
                     ELSE <<Op("RaiseStandardError(STOP_ITERATION)"), Op("Unreachable")>>
         IN  Emitted(retval,
                     default_ops \o <<ComprehensionOp(gen, gen_inner_stmts)>> \o tail
                     \o <<Activate("exit_block")>>)

isinstance_primitives ==
    [n \in {"builtins.bool", "builtins.bytearray", "builtins.bytes", "builtins.dict",
            "builtins.float", "builtins.frozenset", "builtins.int", "builtins.list",
            "builtins.set", "builtins.str", "builtins.tuple"} |-> "isinstance:" \o n]

\* The same test, were one class with a fixed layout enough.
CanBorrowForSome(irs) ==
    \E i \in DOMAIN irs :
        /\ irs[i].is_ext_class
        /\ ~irs[i].inherits_python
        /\ ~irs[i].allow_interpreted_subclasses

\* all(ir.is_ext_class and not ir.inherits_python and not
\* ir.allow_interpreted_subclasses for ir in irs)
CanBorrow(irs) ==
    \A i \in DOMAIN irs :
        /\ irs[i].is_ext_class
        /\ ~irs[i].inherits_python
        /\ ~irs[i].allow_interpreted_subclasses

translate_isinstance(expr, callee) ==
    IF ~(Len(expr.args) = 2 /\ expr.arg_kinds = <<ARG_POS, ARG_POS>>)
    THEN Declined
    ELSE LET x == expr.args[1]
             cls == expr.args[2]
             ref_or_tuple == IsRefExpr(cls) \/ cls.cls = "TupleExpr"
             types == IF ref_or_tuple THEN {x} ELSE {}
             irs == IF ref_or_tuple THEN flatten_classes(cls) ELSE None
         IN  IF irs # None
             THEN Outcome(InstrValue("isinstance_helper", <<Accepted(x), irs.v>>),
                          << AcceptBorrowOp(x, CanBorrow(irs.v)),
                             Instr("isinstance_helper", <<Accepted(x), irs.v>>) >>,
                          types)
             ELSE IF /\ IsRefExpr(cls)
                     /\ cls.node # None
                     /\ cls.node.fullname \in DOMAIN isinstance_primitives
             THEN LET desc == isinstance_primitives[cls.node.fullname]
                  IN  Outcome(InstrValue(desc, <<Accepted(x)>>),
                              <<AcceptOp(x), Instr(desc, <<Accepted(x)>>)>>,
                              types)
             ELSE Outcome(None, <<>>, types)

translate_dict_setdefault_evaluating_first(expr, callee) ==
    IF /\ Len(expr.args) = 2
       /\ expr.arg_kinds = <<ARG_POS, ARG_POS>>
       /\ callee.cls = "MemberExpr"
    THEN LET arg == expr.args[2]
             callee_dict == Accepted(callee.expr)
             key_val == Accepted(expr.args[1])
             evaluated == <<AcceptOp(callee.expr), AcceptOp(expr.args[1])>>
             data_type ==
                 IF arg.cls = "ListExpr" /\ Len(arg.items) = 0 THEN Integer(1, c_int_rprimitive)
                 ELSE IF arg.cls = "DictExpr" /\ Len(arg.items) = 0 THEN Integer(2, c_int_rprimitive)
                 ELSE IF /\ arg.cls = "CallExpr"
                         /\ arg.callee.cls = "NameExpr"
                         /\ arg.callee.fullname = "builtins.set"
                         /\ Len(arg.args) = 0
                 THEN Integer(3, c_int_rprimitive)
                 ELSE None
         IN  IF data_type = None
             THEN Outcome(None, evaluated, {})
             ELSE Emitted(InstrValue("dict_setdefault_spec_init_op",
                                     <<callee_dict, key_val, data_type>>),
                          evaluated \o <<Instr("dict_setdefault_spec_init_op",
                                                <<callee_dict, key_val, data_type>>)>>)
    ELSE Declined

translate_dict_setdefault(expr, callee) ==
    IF /\ Len(expr.args) = 2
       /\ expr.arg_kinds = <<ARG_POS, ARG_POS>>
       /\ callee.cls = "MemberExpr"
    THEN LET arg == expr.args[2]
             data_type ==
                 IF arg.cls = "ListExpr"
                 THEN (IF Len(arg.items) # 0 THEN None ELSE Integer(1, c_int_rprimitive))
                 ELSE IF arg.cls = "DictExpr"
                 THEN (IF Len(arg.items) # 0 THEN None ELSE Integer(2, c_int_rprimitive))
                 ELSE IF /\ arg.cls = "CallExpr"
                         /\ arg.callee.cls = "NameExpr"
                         /\ arg.callee.fullname = "builtins.set"
                 THEN (IF Len(arg.args) # 0 THEN None ELSE Integer(3, c_int_rprimitive))
                 ELSE None
         IN  IF data_type = None
             THEN Declined
             ELSE LET callee_dict == Accepted(callee.expr)
                      key_val == Accepted(expr.args[1])
                      call == <<callee_dict, key_val, data_type>>
                  IN  Emitted(InstrValue("dict_setdefault_spec_init_op", call),
                              << AcceptOp(callee.expr), AcceptOp(expr.args[1]),
                                 Instr("dict_setdefault_spec_init_op", call) >>)
    ELSE Declined

translate_str_format(expr, callee) ==
    IF /\ callee.cls = "MemberExpr"
       /\ callee.expr.cls = "StrExpr"
       /\ AllPos(expr.arg_kinds)
    THEN LET format_str == callee.expr.value
             tokens == tokenizer_format_call(format_str)
         IN  IF tokens = None
             THEN Declined
             ELSE LET substitutions == convert_format_expr_to_str(tokens.v, expr.args)
                  IN  IF substitutions.val = None
                      THEN Outcome(None, substitutions.ops, {})
                      ELSE Emitted(InstrValue("join_formatted_strings", substitutions.val.v),
                                   substitutions.ops \o <<JoinOp>>)
    ELSE Declined

\* The first loop of translate_fstring on one item of the list: "continue",
\* "return None", or the IndexError of item.args[1].
FStringItem(item) ==
    IF item.cls = "StrExpr"
    THEN "continue"
    ELSE IF item.cls = "CallExpr"
    THEN IF item.callee.cls # "MemberExpr" \/ item.callee.name # "format"
         THEN "return None"
         ELSE IF item.callee.expr.cls # "StrExpr" \/ item.callee.expr.value # Text_fmt_nested
         THEN "return None"
         ELSE IF Len(item.args) < 2
         THEN "IndexError"
         ELSE IF item.args[2].cls # "StrExpr" \/ item.args[2].value # Text_empty
         THEN "return None"
         ELSE "continue"
    ELSE "return None"

translate_fstring(expr, callee) ==
    IF /\ callee.cls = "MemberExpr"
       /\ callee.expr.cls = "StrExpr"
       /\ callee.expr.value = Text_empty
       /\ expr.arg_kinds = <<ARG_POS>>
       /\ expr.args[1].cls = "ListExpr"
    THEN LET items == expr.args[1].items
             stopped == {i \in DOMAIN items : FStringItem(items[i]) # "continue"}
         IN  IF stopped # {}
             THEN LET first == CHOOSE i \in stopped : \A j \in stopped : i <= j
                  IN  IF FStringItem(items[first]) = "IndexError"
                      THEN Raised("IndexError", <<>>)
                      ELSE Declined
             ELSE LET kept == SelectSeq(items, LAMBDA item :
                                  item.cls = "CallExpr" \/ item.value # Text_empty)
                      exprs == [i \in DOMAIN kept |->
                                  IF kept[i].cls = "StrExpr" THEN kept[i] ELSE kept[i].args[1]]
                      format_ops == [i \in DOMAIN kept |-> "STR"]
                      substitutions == convert_format_expr_to_str(format_ops, exprs)
                  IN  IF substitutions.val = None
                      THEN Outcome(None, substitutions.ops, {})
                      ELSE Emitted(InstrValue("join_formatted_strings", substitutions.val.v),
                                   substitutions.ops \o <<JoinOp>>)
    ELSE Declined

UpperCase ==
    << "A", "B", "C", "D", "E", "F", "G", "H", "I", "J", "K", "L", "M",
       "N", "O", "P", "Q", "R", "S", "T", "U", "V", "W", "X", "Y", "Z" >>

LowerCase ==
    << "a", "b", "c", "d", "e", "f", "g", "h", "i", "j", "k", "l", "m",
       "n", "o", "p", "q", "r", "s", "t", "u", "v", "w", "x", "y", "z" >>

\* str.lower()
lower(text) ==
    [i \in DOMAIN text |->
        IF \E j \in DOMAIN UpperCase : UpperCase[j] = text[i]
        THEN LowerCase[CHOOSE j \in DOMAIN UpperCase : UpperCase[j] = text[i]]
        ELSE text[i]]

\* str.replace(old, ""), for a one-character old.
remove(text, old) == SelectSeq(text, LAMBDA c : c # old)

\* One argument of str.encode, were a named argument to set the parameter of
\* its position.
EncodeArgByPosition(given, kind, name, value, positional) ==
    IF kind \in {ARG_NAMED, ARG_POS}
    THEN [given EXCEPT ![positional] = value]
    ELSE [given EXCEPT !.declined = TRUE]

\* One argument of str.encode, were an argument of any other kind read as a
\* positional one.
EncodeArgAnyKind(given, kind, name, value, positional) ==
    IF kind = ARG_NAMED
    THEN IF name = "encoding" THEN [given EXCEPT !.encoding = value]
         ELSE IF name = "errors" THEN [given EXCEPT !.errors = value]
         ELSE given
    ELSE [given EXCEPT ![positional] = value]

\* One argument of str.encode: a named argument sets the parameter it names,
\* a positional one the parameter of its position, any other kind declines.
EncodeArg(given, kind, name, value, positional) ==
    IF kind = ARG_NAMED
    THEN IF name = "encoding" THEN [given EXCEPT !.encoding = value]
         ELSE IF name = "errors" THEN [given EXCEPT !.errors = value]
         ELSE given
    ELSE IF kind = ARG_POS
    THEN [given EXCEPT ![positional] = value]
    ELSE [given EXCEPT !.declined = TRUE]

str_encode_fast_path(expr, callee) ==
    IF callee.cls # "MemberExpr"
    THEN Declined
    ELSE IF Len(expr.arg_kinds) > 0 /\ expr.args[1].cls # "StrExpr"
    THEN Declined
    ELSE IF Len(expr.arg_kinds) > 1 /\ expr.args[2].cls # "StrExpr"
    THEN Declined
    ELSE LET defaults == [encoding |-> Text_utf8, errors |-> Text_strict, declined |-> FALSE]
             first == IF Len(expr.arg_kinds) > 0
                      THEN EncodeArg(defaults, expr.arg_kinds[1], expr.arg_names[1],
                                     expr.args[1].value, "encoding")
                      ELSE defaults
             given == IF Len(expr.arg_kinds) > 1 /\ ~first.declined
                      THEN EncodeArg(first, expr.arg_kinds[2], expr.arg_names[2],
                                     expr.args[2].value, "errors")
                      ELSE first
         IN  IF given.declined
             THEN Declined
             ELSE IF given.errors # Text_strict
             THEN Declined
             ELSE LET encoding == remove(remove(lower(given.encoding), "-"), "_")
                      obj == Accepted(callee.expr)
                      desc ==
                          IF encoding \in { <<"u", "8">>, <<"u", "t", "f">>, <<"u", "t", "f", "8">>,
                                            <<"c", "p", "6", "5", "0", "0", "1">> }
                          THEN Some("str_encode_utf8_strict")
                          ELSE IF encoding \in { <<"6", "4", "6">>, <<"a", "s", "c", "i", "i">>,
                                                 <<"u", "s", "a", "s", "c", "i", "i">> }
                          THEN Some("str_encode_ascii_strict")
                          ELSE IF encoding \in { <<"i", "s", "o", "8", "8", "5", "9", "1">>,
                                                 <<"8", "8", "5", "9">>, <<"c", "p", "8", "1", "9">>,
                                                 <<"l", "a", "t", "i", "n">>,
                                                 <<"l", "a", "t", "i", "n", "1">>, <<"l", "1">> }
                          THEN Some("str_encode_latin1_strict")
                          ELSE None
                  IN  IF desc = None
                      THEN Declined
                      ELSE Emitted(InstrValue(desc.v, <<obj>>),
                                   <<AcceptOp(callee.expr), Instr(desc.v, <<obj>>)>>)

\* A native integer type given by its attributes; the model uses it for the
\* widths and signednesses that no rprimitive of mypyc has.
NativeInt(name, size, is_signed) ==
    [k |-> "RPrimitive", name |-> name, size |-> size, is_signed |-> is_signed]

\* RPrimitive.size (bytes) and RPrimitive.is_signed of the native integers.
size(rtype) ==
    CASE rtype = int64_rprimitive -> 8
      [] rtype = int32_rprimitive -> 4
      [] rtype = int16_rprimitive -> 2
      [] rtype = uint8_rprimitive -> 1
      [] OTHER -> rtype.size

is_signed(rtype) ==
    IF rtype \in {int64_rprimitive, int32_rprimitive, int16_rprimitive, uint8_rprimitive}
    THEN rtype # uint8_rprimitive
    ELSE rtype.is_signed

is_fixed_width_rtype(rtype) ==
    rtype \in {int64_rprimitive, int32_rprimitive, int16_rprimitive, uint8_rprimitive}

SignExtend(src, rtype, signed) == [op |-> "Extend", src |-> src, type |-> rtype, signed |-> TRUE]

\* ops.Extend and ops.Truncate
Extend(src, rtype, signed) == [op |-> "Extend", src |-> src, type |-> rtype, signed |-> signed]

Truncate(src, rtype) == [op |-> "Truncate", src |-> src, type |-> rtype]

\* The Value of the instruction builder.add returns.
Added(instr) == [v |-> "add", instr |-> instr]

RECURSIVE ShiftRight8(_, _)
\* x >> (8 * n), of a Python integer: the shift rounds down.
ShiftRight8(x, n) == IF n = 0 THEN x ELSE ShiftRight8(x \div 256, n - 1)

\* x & max_unsigned, kept as its bytes, lowest first: byte i of the two's
\* complement of x, for each of the size bytes the mask covers. (The model's
\* integers have 32 bits, max_unsigned may have 64.)
Masked(x, nbytes) == [i \in 0..(nbytes - 1) |-> ShiftRight8(x, i) % 256]

RECURSIVE NumberFrom(_, _)
\* The number whose bytes from i up are those of bytes.
NumberFrom(bytes, i) ==
    IF i \notin DOMAIN bytes THEN 0 ELSE bytes[i] + 256 * NumberFrom(bytes, i + 1)

TruncatedLessMaxUnsigned(x, nbytes, signed) ==
    LET masked == Masked(x, nbytes)
    IN  IF signed /\ masked[nbytes - 1] >= 128
        THEN 0 - NumberFrom([i \in DOMAIN masked |-> 255 - masked[i]], 0)
        ELSE NumberFrom(masked, 0)

\* x & max_unsigned, minus max_unsigned + 1 when the type is signed and the
\* masked value is at least half of it, that is when its top byte is at
\* least 128; the difference is minus the complement of the bytes, minus 1.
Truncated(x, nbytes, signed) ==
    LET masked == Masked(x, nbytes)
    IN  IF signed /\ masked[nbytes - 1] >= 128
        THEN (0 - NumberFrom([i \in DOMAIN masked |-> 255 - masked[i]], 0)) - 1
        ELSE NumberFrom(masked, 0)

truncate_literal_retyping(value, rtype) ==
    IF value.v # "Integer" THEN value ELSE Integer(value.value, rtype)

\* truncate_literal: a value that is not an Integer is returned as it is.
truncate_literal(value, rtype) ==
    IF value.v # "Integer"
    THEN value
    ELSE Integer(Truncated(value.value, size(rtype), is_signed(rtype)), rtype)

translate_i64(expr, callee) ==
    IF Len(expr.args) # 1 \/ expr.arg_kinds[1] # ARG_POS
    THEN Declined
    ELSE LET arg == expr.args[1]
             arg_type == node_type(arg)
             val == Accepted(arg)
         IN  IF arg_type = int64_rprimitive
             THEN Emitted(val, <<AcceptOp(arg)>>)
             ELSE IF arg_type = int32_rprimitive \/ arg_type = int16_rprimitive
             THEN Emitted(Added(Extend(val, int64_rprimitive, TRUE)),
                          <<AcceptOp(arg), Extend(val, int64_rprimitive, TRUE)>>)
             ELSE IF arg_type = uint8_rprimitive
             THEN Emitted(Added(Extend(val, int64_rprimitive, FALSE)),
                          <<AcceptOp(arg), Extend(val, int64_rprimitive, FALSE)>>)
             ELSE IF arg_type = int_rprimitive \/ arg_type = bool_rprimitive
             THEN Emitted(Coerced(val, int64_rprimitive),
                          <<AcceptOp(arg), CoerceOp(val, int64_rprimitive)>>)
             ELSE Declined

translate_i32(expr, callee) ==
    IF Len(expr.args) # 1 \/ expr.arg_kinds[1] # ARG_POS
    THEN Declined
    ELSE LET arg == expr.args[1]
             arg_type == node_type(arg)
             val == Accepted(arg)
         IN  IF arg_type = int32_rprimitive
             THEN Emitted(val, <<AcceptOp(arg)>>)
             ELSE IF arg_type = int64_rprimitive
             THEN Emitted(Added(Truncate(val, int32_rprimitive)),
                          <<AcceptOp(arg), Truncate(val, int32_rprimitive)>>)
             ELSE IF arg_type = int16_rprimitive
             THEN Emitted(Added(Extend(val, int32_rprimitive, TRUE)),
                          <<AcceptOp(arg), Extend(val, int32_rprimitive, TRUE)>>)
             ELSE IF arg_type = uint8_rprimitive
             THEN Emitted(Added(Extend(val, int32_rprimitive, FALSE)),
                          <<AcceptOp(arg), Extend(val, int32_rprimitive, FALSE)>>)
             ELSE IF arg_type = int_rprimitive \/ arg_type = bool_rprimitive
             THEN LET truncated == truncate_literal(val, int32_rprimitive)
                  IN  Emitted(Coerced(truncated, int32_rprimitive),
                              <<AcceptOp(arg), CoerceOp(truncated, int32_rprimitive)>>)
             ELSE Declined

translate_i16(expr, callee) ==
    IF Len(expr.args) # 1 \/ expr.arg_kinds[1] # ARG_POS
    THEN Declined
    ELSE LET arg == expr.args[1]
             arg_type == node_type(arg)
             val == Accepted(arg)
         IN  IF arg_type = int16_rprimitive
             THEN Emitted(val, <<AcceptOp(arg)>>)
             ELSE IF arg_type = int32_rprimitive \/ arg_type = int64_rprimitive
             THEN Emitted(Added(Truncate(val, int16_rprimitive)),
                          <<AcceptOp(arg), Truncate(val, int16_rprimitive)>>)
             ELSE IF arg_type = uint8_rprimitive
             THEN Emitted(Added(Extend(val, int16_rprimitive, FALSE)),
                          <<AcceptOp(arg), Extend(val, int16_rprimitive, FALSE)>>)
             ELSE IF arg_type = int_rprimitive \/ arg_type = bool_rprimitive
             THEN LET truncated == truncate_literal(val, int16_rprimitive)
                  IN  Emitted(Coerced(truncated, int16_rprimitive),
                              <<AcceptOp(arg), CoerceOp(truncated, int16_rprimitive)>>)
             ELSE Declined

translate_u8(expr, callee) ==
    IF Len(expr.args) # 1 \/ expr.arg_kinds[1] # ARG_POS
    THEN Declined
    ELSE LET arg == expr.args[1]
             arg_type == node_type(arg)
             val == Accepted(arg)
         IN  IF arg_type = uint8_rprimitive
             THEN Emitted(val, <<AcceptOp(arg)>>)
             ELSE IF \/ arg_type = int16_rprimitive
                     \/ arg_type = int32_rprimitive
                     \/ arg_type = int64_rprimitive
             THEN Emitted(Added(Truncate(val, uint8_rprimitive)),
                          <<AcceptOp(arg), Truncate(val, uint8_rprimitive)>>)
             ELSE IF arg_type = int_rprimitive \/ arg_type = bool_rprimitive
             THEN LET truncated == truncate_literal(val, uint8_rprimitive)
                  IN  Emitted(Coerced(truncated, uint8_rprimitive),
                              <<AcceptOp(arg), CoerceOp(truncated, uint8_rprimitive)>>)
             ELSE Declined

translate_int(expr, callee) ==
    IF Len(expr.args) # 1 \/ expr.arg_kinds[1] # ARG_POS
    THEN Declined
    ELSE LET arg == expr.args[1]
             arg_type == node_type(arg)
             src == Accepted(arg)
         IN  IF \/ arg_type = bool_rprimitive
                \/ arg_type = int_rprimitive
                \/ is_fixed_width_rtype(arg_type)
             THEN Emitted(Coerced(src, int_rprimitive),
                          <<AcceptOp(arg), CoerceOp(src, int_rprimitive)>>)
             ELSE Declined

translate_bool(expr, callee) ==
    IF Len(expr.args) # 1 \/ expr.arg_kinds[1] # ARG_POS
    THEN Declined
    ELSE LET arg == expr.args[1]
             src == Accepted(arg)
         IN  Emitted(InstrValue("bool_value", <<src>>),
                     <<AcceptOp(arg), Instr("bool_value", <<src>>)>>)

translate_float(expr, callee) ==
    IF Len(expr.args) # 1 \/ expr.arg_kinds[1] # ARG_POS
    THEN Declined
    ELSE LET arg == expr.args[1]
             arg_type == node_type(arg)
         IN  IF arg_type = float_rprimitive
             THEN Emitted(Accepted(arg), <<AcceptOp(arg)>>)
             ELSE Declined

\* ord(), on ASCII letters.
ord(c) ==
    IF \E j \in DOMAIN LowerCase : LowerCase[j] = c
    THEN 96 + (CHOOSE j \in DOMAIN LowerCase : LowerCase[j] = c)
    ELSE 64 + (CHOOSE j \in DOMAIN UpperCase : UpperCase[j] = c)

\* Returns the literal without emitting anything.
translate_ord(expr, callee) ==
    IF Len(expr.args) # 1 \/ expr.arg_kinds[1] # ARG_POS
    THEN Declined
    ELSE LET arg == expr.args[1]
         IN  IF arg.cls \in {"StrExpr", "BytesExpr"} /\ Len(arg.value) = 1
             THEN Emitted(Integer(ord(arg.value[1]), short_int_rprimitive), <<>>)
             ELSE Declined

\* specializer(builder, expr, callee), for the specializer of the given name.
RunSpecializer(f, expr, callee) ==
    CASE f = "translate_globals" -> translate_globals(expr, callee)
      [] f = "translate_builtins_with_unary_dunder" -> translate_builtins_with_unary_dunder(expr, callee)
      [] f = "translate_len" -> translate_len(expr, callee)
      [] f = "dict_methods_fast_path" -> dict_methods_fast_path(expr, callee)
      [] f = "translate_list_from_generator_call" -> translate_list_from_generator_call(expr, callee)
      [] f = "translate_tuple_from_generator_call" -> translate_tuple_from_generator_call(expr, callee)
      [] f = "translate_set_from_generator_call" -> translate_set_from_generator_call(expr, callee)
      [] f = "faster_min_max" -> faster_min_max(expr, callee)
      [] f = "translate_safe_generator_call" -> translate_safe_generator_call(expr, callee)
      [] f = "translate_any_call" -> translate_any_call(expr, callee)
      [] f = "translate_all_call" -> translate_all_call(expr, callee)
      [] f = "translate_sum_call" -> translate_sum_call(expr, callee)
      [] f = "translate_dataclasses_field_call" -> translate_dataclasses_field_call(expr, callee)
      [] f = "translate_next_call" -> translate_next_call(expr, callee)
      [] f = "translate_isinstance" -> translate_isinstance(expr, callee)
      [] f = "translate_dict_setdefault" -> translate_dict_setdefault(expr, callee)
      [] f = "translate_str_format" -> translate_str_format(expr, callee)
      [] f = "translate_fstring" -> translate_fstring(expr, callee)
      [] f = "str_encode_fast_path" -> str_encode_fast_path(expr, callee)
      [] f = "translate_i64" -> translate_i64(expr, callee)
      [] f = "translate_i32" -> translate_i32(expr, callee)
      [] f = "translate_i16" -> translate_i16(expr, callee)
      [] f = "translate_u8" -> translate_u8(expr, callee)
      [] f = "translate_int" -> translate_int(expr, callee)
      [] f = "translate_bool" -> translate_bool(expr, callee)
      [] f = "translate_float" -> translate_float(expr, callee)
      [] f = "translate_ord" -> translate_ord(expr, callee)

\* ------------------------------------------------------------ the registry

\* specializers.get(key, [])
Lookup(registry, key) == IF key \in DOMAIN registry THEN registry[key] ELSE <<>>

specialize_function_replacing(registry, name, typ, f) ==
    [key \in DOMAIN registry \cup {<<name, typ>>} |->
        IF key = <<name, typ>> THEN <<f>> ELSE registry[key]]

specialize_function_by_name(registry, name, typ, f) ==
    [key \in DOMAIN registry \cup {<<name, typ>>} |->
        IF key[1] = name THEN Append(Lookup(registry, key), f) ELSE registry[key]]

\* The registration, were the function put in front of its key's list.
specialize_function_prepending(registry, name, typ, f) ==
    [key \in DOMAIN registry \cup {<<name, typ>>} |->
        IF key = <<name, typ>> THEN <<f>> \o Lookup(registry, key) ELSE registry[key]]

\* The registry after the wrapper of specialize_function(name, typ) has run
\* on f: specializers.setdefault((name, typ), []).append(f)
specialize_function(registry, name, typ, f) ==
    [key \in DOMAIN registry \cup {<<name, typ>>} |->
        IF key = <<name, typ>> THEN Append(Lookup(registry, key), f) ELSE registry[key]]

Registration(name, typ, f) == [name |-> name, typ |-> typ, f |-> f]

\* The decorators of the module in the order they run when it is imported:
\* the functions top to bottom, the decorators of one function bottom to top.
ModuleRegistrations ==
    << Registration("builtins.globals", None, "translate_globals"),
       Registration("mypy_extensions.u8", None, "translate_builtins_with_unary_dunder"),
       Registration("mypy_extensions.i16", None, "translate_builtins_with_unary_dunder"),
       Registration("mypy_extensions.i32", None, "translate_builtins_with_unary_dunder"),
       Registration("mypy_extensions.i64", None, "translate_builtins_with_unary_dunder"),
       Registration("builtins.complex", None, "translate_builtins_with_unary_dunder"),
       Registration("builtins.float", None, "translate_builtins_with_unary_dunder"),
       Registration("builtins.int", None, "translate_builtins_with_unary_dunder"),
       Registration("builtins.abs", None, "translate_builtins_with_unary_dunder"),
       Registration("builtins.len", None, "translate_len"),
       Registration("builtins.list", None, "dict_methods_fast_path"),
       Registration("builtins.list", None, "translate_list_from_generator_call"),
       Registration("builtins.tuple", None, "translate_tuple_from_generator_call"),
       Registration("builtins.set", None, "translate_set_from_generator_call"),
       Registration("builtins.max", None, "faster_min_max"),
       Registration("builtins.min", None, "faster_min_max"),
       Registration("update", set_rprimitive, "translate_safe_generator_call"),
       Registration("update", dict_rprimitive, "translate_safe_generator_call"),
       Registration("extend", list_rprimitive, "translate_safe_generator_call"),
       Registration("join", str_rprimitive, "translate_safe_generator_call"),
       Registration("collections.OrderedDict", None, "translate_safe_generator_call"),
       Registration("builtins.sorted", None, "translate_safe_generator_call"),
       Registration("builtins.max", None, "translate_safe_generator_call"),
       Registration("builtins.min", None, "translate_safe_generator_call"),
       Registration("builtins.dict", None, "translate_safe_generator_call"),
       Registration("builtins.frozenset", None, "translate_safe_generator_call"),
       Registration("builtins.tuple", None, "translate_safe_generator_call"),
       Registration("builtins.any", None, "translate_any_call"),
       Registration("builtins.all", None, "translate_all_call"),
       Registration("builtins.sum", None, "translate_sum_call"),
       Registration("attr.Factory", None, "translate_dataclasses_field_call"),
       Registration("attr.attrib", None, "translate_dataclasses_field_call"),
       Registration("attr.ib", None, "translate_dataclasses_field_call"),
       Registration("dataclasses.field", None, "translate_dataclasses_field_call"),
       Registration("builtins.next", None, "translate_next_call"),
       Registration("builtins.isinstance", None, "translate_isinstance"),
       Registration("setdefault", dict_rprimitive, "translate_dict_setdefault"),
       Registration("format", str_rprimitive, "translate_str_format"),
       Registration("join", str_rprimitive, "translate_fstring"),
       Registration("encode", str_rprimitive, "str_encode_fast_path"),
       Registration("mypy_extensions.i64", None, "translate_i64"),
       Registration("mypy_extensions.i32", None, "translate_i32"),
       Registration("mypy_extensions.i16", None, "translate_i16"),
       Registration("mypy_extensions.u8", None, "translate_u8"),
       Registration("builtins.int", None, "translate_int"),
       Registration("builtins.bool", None, "translate_bool"),
       Registration("builtins.float", None, "translate_float"),
       Registration("builtins.ord", None, "translate_ord") >>

\* The names of the specializers of the module.
Specializers == {ModuleRegistrations[i].f : i \in DOMAIN ModuleRegistrations}

\* What one attempt did: the name and receiver type it looked up, the list
\* it walked, the specializers it called with what each did, and the
\* outcome (a Value, None, or the exception a specializer raised).
Attempted(name, typ, rules, calls, val, exc) ==
    [name |-> name, typ |-> typ, rules |-> rules, calls |-> calls, val |-> val, exc |-> exc]

RECURSIVE CallFrom(_, _, _, _)
\* The for loop of _apply_specialization from the i-th specializer on: the
\* calls made and the Value returned, None after the last one.
CallFrom(rules, i, expr, callee) ==
    IF i > Len(rules)
    THEN [calls |-> <<>>, val |-> None, exc |-> None]
    ELSE LET out == RunSpecializer(rules[i], expr, callee)
             call == [f |-> rules[i], out |-> out]
         IN  IF out.exc # None
             THEN [calls |-> <<call>>, val |-> None, exc |-> out.exc]
             ELSE IF out.val # None
             THEN [calls |-> <<call>>, val |-> out.val, exc |-> None]
             ELSE LET rest == CallFrom(rules, i + 1, expr, callee)
                  IN  [rest EXCEPT !.calls = <<call>> \o rest.calls]

RECURSIVE CallAllFrom(_, _, _, _)
CallAllFrom(rules, i, expr, callee) ==
    IF i > Len(rules)
    THEN [calls |-> <<>>, val |-> None, exc |-> None]
    ELSE LET out == RunSpecializer(rules[i], expr, callee)
             call == [f |-> rules[i], out |-> out]
             rest == CallAllFrom(rules, i + 1, expr, callee)
         IN  [rest EXCEPT !.calls = <<call>> \o rest.calls,
                          !.val = IF rest.val # None THEN rest.val ELSE out.val]

apply_specialization_calling_all(registry, expr, callee, name, typ) ==
    IF name # "" /\ <<name, typ>> \in DOMAIN registry
    THEN LET rules == registry[<<name, typ>>]
             done == CallAllFrom(rules, 1, expr, callee)
         IN  Attempted(name, typ, rules, done.calls, done.val, done.exc)
    ELSE Attempted(name, typ, <<>>, <<>>, None, None)

\* The lookup, were it made with setdefault: a key without a list gets an
\* empty one.
looked_up_with_setdefault(registry, name, typ) ==
    IF name # "" /\ <<name, typ>> \notin DOMAIN registry
    THEN [key \in DOMAIN registry \cup {<<name, typ>>} |->
            IF key = <<name, typ>> THEN <<>> ELSE registry[key]]
    ELSE registry

\* The registry after the lookup of _apply_specialization: the membership
\* test and the subscript read the dictionary and leave it as it is, and no
\* specializer refers to it.
looked_up(registry, name, typ) == registry

\* _apply_specialization; a callee without a name has the fullname "".
apply_specialization(registry, expr, callee, name, typ) ==
    IF name # "" /\ <<name, typ>> \in DOMAIN registry
    THEN LET rules == registry[<<name, typ>>]
             done == CallFrom(rules, 1, expr, callee)
         IN  Attempted(name, typ, rules, done.calls, done.val, done.exc)
    ELSE Attempted(name, typ, <<>>, <<>>, None, None)

apply_function_specialization(registry, expr, callee) ==
    apply_specialization(registry, expr, callee, callee.fullname, None)

apply_method_specialization_with_fallback(registry, expr, callee, typ) ==
    LET name == IF typ = None THEN callee.fullname ELSE callee.name
    IN  IF typ # None /\ <<name, typ>> \notin DOMAIN registry
        THEN apply_specialization(registry, expr, callee, name, None)
        ELSE apply_specialization(registry, expr, callee, name, typ)

apply_method_specialization(registry, expr, callee, typ) ==
    LET name == IF typ = None THEN callee.fullname ELSE callee.name
    IN  apply_specialization(registry, expr, callee, name, typ)

\* ------------------------------------------------------------ call sites

\* A variable of the given type.
Var(name, rtype) == NameExpr(name, [fullname |-> name], None, rtype)

\* A reference to a function, a class or a module by its qualified name;
\* class_ir is the descriptor of a compiled class, None otherwise.
Ref(fullname, class_ir) == NameExpr(fullname, [fullname |-> fullname], class_ir, object_rprimitive)

\* Compiled classes: one with a fixed layout that implements __int__ and
\* __abs__, one that allows interpreted subclasses.
ClassN == NativeClassIR("N", {"__int__", "__abs__"}, TRUE, FALSE, FALSE)

ClassS == NativeClassIR("S", {}, TRUE, FALSE, TRUE)

x_object == Var("x", object_rprimitive)

Generic == {IntExpr(1), x_object}

gen_list == GeneratorExpr(1, 0, list_rprimitive)

gen_dict == GeneratorExpr(1, 0, dict_rprimitive)

Generators == {gen_list, GeneratorExpr(1, 1, list_rprimitive),
               GeneratorExpr(2, 0, list_rprimitive), gen_dict}

\* A call without arguments of the method of a receiver: d.keys()
MethodCall(receiver, name) ==
    CallExpr(MemberExpr(receiver, name, name), <<>>, <<>>, <<>>, object_rprimitive)

\* "{:{}}".format(value, "") and the same without the format specification
FormatItem(args) ==
    CallExpr(MemberExpr(StrExpr(Text_fmt_nested), "format", "builtins.str.format"),
             args, [i \in DOMAIN args |-> ARG_POS], [i \in DOMAIN args |-> ""],
             str_rprimitive)

\* The argument expressions each specializer is tried on.
ArgNodes(f) ==
    CASE f = "translate_builtins_with_unary_dunder" ->
            Generic \cup {Var("n", RInstance(ClassN)), Var("s", RInstance(ClassS))}
      [] f = "translate_len" ->
            Generic \cup {Var("t", RTuple(<<int_rprimitive, int_rprimitive>>)),
                          Var("l", list_rprimitive)}
      [] f = "dict_methods_fast_path" ->
            Generic \cup {MethodCall(Var("d", dict_rprimitive), "keys"),
                          MethodCall(Var("d", dict_rprimitive), "items"),
                          MethodCall(Var("d", dict_rprimitive), "get"),
                          MethodCall(Var("l", list_rprimitive), "keys")}
      [] f \in {"translate_list_from_generator_call", "translate_tuple_from_generator_call",
                "translate_set_from_generator_call", "translate_safe_generator_call",
                "translate_any_call", "translate_all_call", "translate_sum_call",
                "translate_next_call"} ->
            Generic \cup Generators
      [] f = "translate_isinstance" ->
            {x_object, Ref("builtins.int", None), Ref("m.N", ClassN), Ref("m.S", ClassS),
             TupleExpr(<<Ref("m.N", ClassN), Ref("m.S", ClassS)>>),
             NameExpr("unbound", None, None, object_rprimitive)}
      [] f = "translate_dict_setdefault" ->
            Generic \cup {ListExpr(<<>>), ListExpr(<<IntExpr(1)>>), DictExpr(<<>>),
                          CallExpr(Ref("builtins.set", None), <<>>, <<>>, <<>>, set_rprimitive)}
      [] f = "translate_str_format" ->
            Generic \cup {Var("s", str_rprimitive), Var("i", int_rprimitive)}
      [] f = "translate_fstring" ->
            Generic \cup {ListExpr(<<StrExpr(Text_x), FormatItem(<<x_object, StrExpr(Text_empty)>>)>>),
                          ListExpr(<<StrExpr(Text_empty)>>),
                          ListExpr(<<FormatItem(<<x_object, StrExpr(Text_x)>>)>>),
                          ListExpr(<<FormatItem(<<x_object>>)>>)}
      [] f = "str_encode_fast_path" ->
            {x_object, StrExpr(Text_utf8), StrExpr(Text_UTF_8), StrExpr(Text_ascii),
             StrExpr(Text_Latin_1), StrExpr(Text_koi8), StrExpr(Text_strict),
             StrExpr(Text_ignore)}
      [] f \in {"translate_i64", "translate_i32", "translate_i16", "translate_u8",
                "translate_int", "translate_bool", "translate_float"} ->
            {IntExpr(300), x_object, Var("i", int_rprimitive), Var("b", bool_rprimitive),
             Var("f", float_rprimitive), Var("a", int64_rprimitive),
             Var("c", int32_rprimitive), Var("d", int16_rprimitive),
             Var("e", uint8_rprimitive)}
      [] f = "translate_ord" ->
            {x_object, StrExpr(Text_x), StrExpr(Text_utf8), BytesExpr(Text_x)}
      [] OTHER -> Generic

\* The names a named argument is given by.
ArgNames(f) == IF f = "str_encode_fast_path" THEN {"encoding", "errors"} ELSE {"key"}

\* One argument of a call: its expression, its kind and its name ("" for an
\* argument that is not named).
Args(f) ==
    {[node |-> n, kind |-> k, name |-> ""] : n \in ArgNodes(f), k \in {ARG_POS, ARG_STAR}}
    \cup {[node |-> n, kind |-> ARG_NAMED, name |-> a] : n \in ArgNodes(f), a \in ArgNames(f)}

\* The callee expressions each specializer is tried with: those of the keys
\* it is registered under.
Callees(f) ==
    CASE f = "translate_globals" -> {Ref("builtins.globals", None)}
      [] f = "translate_builtins_with_unary_dunder" ->
            {Ref("builtins.abs", None), Ref("mypy_extensions.i64", None),
             MemberExpr(Ref("builtins", None), "int", "builtins.int")}
      [] f = "translate_len" -> {Ref("builtins.len", None)}
      [] f \in {"dict_methods_fast_path", "translate_list_from_generator_call"} ->
            {Ref("builtins.list", None)}
      [] f = "translate_tuple_from_generator_call" -> {Ref("builtins.tuple", None)}
      [] f = "translate_set_from_generator_call" -> {Ref("builtins.set", None)}
      [] f = "faster_min_max" -> {Ref("builtins.min", None), Ref("builtins.max", None)}
      [] f = "translate_safe_generator_call" ->
            {Ref("builtins.tuple", None),
             MemberExpr(Ref("collections", None), "OrderedDict", "collections.OrderedDict"),
             MemberExpr(StrExpr(Text_x), "join", "builtins.str.join")}
      [] f = "translate_any_call" -> {Ref("builtins.any", None)}
      [] f = "translate_all_call" -> {Ref("builtins.all", None)}
      [] f = "translate_sum_call" -> {Ref("builtins.sum", None)}
      [] f = "translate_dataclasses_field_call" -> {Ref("dataclasses.field", None)}
      [] f = "translate_next_call" -> {Ref("builtins.next", None)}
      [] f = "translate_isinstance" -> {Ref("builtins.isinstance", None)}
      [] f = "translate_dict_setdefault" ->
            {MemberExpr(Var("d", dict_rprimitive), "setdefault", "builtins.dict.setdefault")}
      [] f = "translate_str_format" ->
            {MemberExpr(StrExpr(Text_fmt_str), "format", "builtins.str.format"),
             MemberExpr(StrExpr(Text_fmt_str_int), "format", "builtins.str.format"),
             MemberExpr(StrExpr(Text_fmt_repr), "format", "builtins.str.format"),
             MemberExpr(Var("s", str_rprimitive), "format", "builtins.str.format")}
      [] f = "translate_fstring" ->
            {MemberExpr(StrExpr(Text_empty), "join", "builtins.str.join"),
             MemberExpr(StrExpr(Text_x), "join", "builtins.str.join")}
      [] f = "str_encode_fast_path" ->
            {MemberExpr(Var("s", str_rprimitive), "encode", "builtins.str.encode")}
      [] f = "translate_i64" -> {Ref("mypy_extensions.i64", None)}
      [] f = "translate_i32" -> {Ref("mypy_extensions.i32", None)}
      [] f = "translate_i16" -> {Ref("mypy_extensions.i16", None)}
      [] f = "translate_u8" -> {Ref("mypy_extensions.u8", None)}
      [] f = "translate_int" -> {Ref("builtins.int", None)}
      [] f = "translate_bool" -> {Ref("builtins.bool", None)}
      [] f = "translate_float" -> {Ref("builtins.float", None)}
      [] f = "translate_ord" -> {Ref("builtins.ord", None)}

\* The type recorded for the call expression itself.
CallType(f) ==
    IF f \in {"faster_min_max", "translate_sum_call", "translate_next_call"}
    THEN int_rprimitive
    ELSE object_rprimitive

\* The call expression with the given callee and arguments.
Call(callee, args, rtype) ==
    CallExpr(callee,
             [i \in DOMAIN args |-> args[i].node],
             [i \in DOMAIN args |-> args[i].kind],
             [i \in DOMAIN args |-> args[i].name],
             rtype)

\* ---------------------------------------------------------- SpecMapper

NotRun == [k |-> "NotRun"]

EmptyMap == [x \in {} |-> None]

MapperInit ==
    /\ type_to_ir = EmptyMap
    /\ mtyp = NotRun
    /\ mret = NotRun

LowerInit ==
    /\ stack = <<>>
    /\ ltyp = NotRun
    /\ lret = NotRun

\* A class is compiled: its descriptor is registered, once, under its TypeInfo.
RegisterClass(info) ==
    /\ info \notin DOMAIN type_to_ir
    /\ mtyp = NotRun
    /\ ltyp = NotRun
    /\ type_to_ir' = [x \in DOMAIN type_to_ir \cup {info} |->
                        IF x = info THEN ClassIR(info) ELSE type_to_ir[x]]
    /\ UNCHANGED <<mtyp, mret, stack, ltyp, lret>>
    /\ UNCHANGED <<registryVars, ruleVars, sigVars, contextVars, generatorVars, envVars, truncVars, execVars, boolVars>>

\* One call mapper.type_to_rtype(typ); mtyp and mret record it for its caller.
Lower ==
    /\ mtyp = NotRun
    /\ \E typ \in StaticTypes :
          /\ mtyp' = typ
          /\ mret' = type_to_rtype(typ)
    /\ UNCHANGED <<type_to_ir, stack, ltyp, lret>>
    /\ UNCHANGED <<registryVars, ruleVars, sigVars, contextVars, generatorVars, envVars, truncVars, execVars, boolVars>>

\* The caller has taken the result; the mapper keeps nothing of the call.
LowerReturned ==
    /\ mtyp # NotRun
    /\ mtyp' = NotRun
    /\ mret' = NotRun
    /\ UNCHANGED <<type_to_ir, stack, ltyp, lret>>
    /\ UNCHANGED <<registryVars, ruleVars, sigVars, contextVars, generatorVars, envVars, truncVars, execVars, boolVars>>

MapperNext ==
    \/ \E info \in UserClasses : RegisterClass(info)
    \/ Lower
    \/ LowerReturned

\* specializers = {} when the module starts to load; nothing was attempted.
RegistryInit ==
    /\ specializers = EmptyMap
    /\ registered = 0
    /\ attempt = NotRun

RulesInit == tried = NotRun

SigInit ==
    /\ fdef_to_generator = EmptyMap
    /\ sig = NotRun

ContextInit ==
    /\ fn_info = NotRun
    /\ gen_class = NotRun
    /\ attached = <<>>
    /\ ctx_read = NotRun

GeneratorInit ==
    /\ gen_label = 0
    /\ gen_run = NotRun

EnvInit ==
    /\ env_slots = <<>>
    /\ captures = {}

TruncInit == trunc = NotRun

ExecInit == run = NotRun

BoolInit ==
    /\ errors = <<>>
    /\ req = NotRun

Init ==
    /\ MapperInit /\ LowerInit /\ RegistryInit /\ RulesInit
    /\ SigInit /\ ContextInit /\ GeneratorInit /\ EnvInit /\ TruncInit
    /\ ExecInit /\ BoolInit

SpecMapper == Init /\ [][MapperNext]_vars

\* ----------------------------------------------------------- SpecLower
\* The same call, one invocation of type_to_rtype at a time: a frame is one
\* invocation, with the results of the recursive calls it has made so far.

Frame(typ) == [typ |-> typ, rs |-> <<>>]

Top == stack[Len(stack)]

\* mapper.type_to_rtype(typ) is called.
LowerCall ==
    /\ stack = <<>>
    /\ ltyp = NotRun
    /\ mtyp = NotRun
    /\ \E typ \in StaticTypes :
          /\ stack' = <<Frame(typ)>>
          /\ ltyp' = typ
    /\ lret' = NotRun
    /\ UNCHANGED <<mapperVars, registryVars, ruleVars, sigVars, contextVars, generatorVars, envVars, truncVars, execVars, boolVars>>

\* The invocation on top makes its next recursive call.
LowerRecurse ==
    /\ stack # <<>>
    /\ Len(Top.rs) < Len(RecursiveCalls(Top.typ))
    /\ stack' = Append(stack, Frame(RecursiveCalls(Top.typ)[Len(Top.rs) + 1]))
    /\ UNCHANGED <<ltyp, lret>>
    /\ UNCHANGED <<mapperVars, registryVars, ruleVars, sigVars, contextVars, generatorVars, envVars, truncVars, execVars, boolVars>>

\* The invocation on top has made all its recursive calls and returns.
LowerReturn ==
    /\ stack # <<>>
    /\ Len(Top.rs) = Len(RecursiveCalls(Top.typ))
    /\ Return(Top.typ, Top.rs) # AssertionError
    /\ IF Len(stack) = 1
       THEN /\ stack' = <<>>
            /\ lret' = Return(Top.typ, Top.rs)
       ELSE /\ stack' = [SubSeq(stack, 1, Len(stack) - 1) EXCEPT
                           ![Len(stack) - 1].rs = Append(@, Return(Top.typ, Top.rs))]
            /\ lret' = lret
    /\ UNCHANGED ltyp
    /\ UNCHANGED <<mapperVars, registryVars, ruleVars, sigVars, contextVars, generatorVars, envVars, truncVars, execVars, boolVars>>

\* The invocation on top fails an assertion: the exception leaves every
\* pending invocation.
LowerRaise ==
    /\ stack # <<>>
    /\ Len(Top.rs) = Len(RecursiveCalls(Top.typ))
    /\ Return(Top.typ, Top.rs) = AssertionError
    /\ stack' = <<>>
    /\ lret' = AssertionError
    /\ UNCHANGED ltyp
    /\ UNCHANGED <<mapperVars, registryVars, ruleVars, sigVars, contextVars, generatorVars, envVars, truncVars, execVars, boolVars>>

\* The caller has taken the outcome.
LowerDone ==
    /\ stack = <<>>
    /\ lret # NotRun
    /\ ltyp' = NotRun
    /\ lret' = NotRun
    /\ UNCHANGED stack
    /\ UNCHANGED <<mapperVars, registryVars, ruleVars, sigVars, contextVars, generatorVars, envVars, truncVars, execVars, boolVars>>

LowerNext ==
    \/ \E info \in UserClasses : RegisterClass(info)
    \/ LowerCall
    \/ LowerRecurse
    \/ LowerReturn
    \/ LowerRaise
    \/ LowerDone

SpecLower == Init /\ [][LowerNext]_vars

\* ----------------------------------------------------------- SpecRegistry
\* The registry while specialize.py is imported, while further specializers
\* are registered, and while calls are compiled.

\* The registrations made after the module's own.
MaxRegs == 2

\* The keys and the specializers of those further registrations.
FurtherKeys == {<<"join", None>>, <<"join", str_rprimitive>>, <<"builtins.tuple", None>>}

FurtherSpecializers ==
    {"translate_globals", "translate_tuple_from_generator_call", "translate_safe_generator_call"}

\* The call sites compiled: callees with and without specializers, named and
\* unnamed, and argument lists some specializers accept and some decline.
AttemptCallees ==
    { Ref("builtins.tuple", None), Ref("builtins.min", None), Ref("builtins.int", None),
      Ref("m.f", None), Ref("", None),
      MemberExpr(Ref("collections", None), "OrderedDict", "collections.OrderedDict"),
      MemberExpr(StrExpr(Text_empty), "join", "builtins.str.join"),
      MemberExpr(Var("b", bytes_rprimitive), "join", "builtins.bytes.join") }

AttemptArgs ==
    { <<>>, <<gen_list>>, <<gen_dict>>, <<Var("i", int_rprimitive)>>,
      <<ListExpr(<<StrExpr(Text_x)>>)>>, <<x_object, x_object>> }

AttemptCalls ==
    { CallExpr(callee, args, [i \in DOMAIN args |-> ARG_POS], [i \in DOMAIN args |-> ""],
               object_rprimitive) : callee \in AttemptCallees, args \in AttemptArgs }

\* The next decorator of specialize.py runs.
ImportSpecialize ==
    /\ registered < Len(ModuleRegistrations)
    /\ LET r == ModuleRegistrations[registered + 1]
       IN  specializers' = specialize_function(specializers, r.name, r.typ, r.f)
    /\ registered' = registered + 1
    /\ UNCHANGED <<attempt, tried>>
    /\ UNCHANGED <<mapperVars, lowerVars, sigVars, contextVars, generatorVars, envVars, truncVars, execVars, boolVars>>

\* @specialize_function(name, typ) is applied to one more function.
SpecializeFunction ==
    /\ registered >= Len(ModuleRegistrations)
    /\ registered < Len(ModuleRegistrations) + MaxRegs
    /\ attempt = NotRun
    /\ tried = NotRun
    /\ \E key \in FurtherKeys : \E f \in FurtherSpecializers :
          specializers' = specialize_function(specializers, key[1], key[2], f)
    /\ registered' = registered + 1
    /\ UNCHANGED <<attempt, tried>>
    /\ UNCHANGED <<mapperVars, lowerVars, sigVars, contextVars, generatorVars, envVars, truncVars, execVars, boolVars>>

\* A call of a function is compiled: apply_function_specialization.
ApplyFunction ==
    /\ registered >= Len(ModuleRegistrations)
    /\ attempt = NotRun
    /\ tried = NotRun
    /\ \E expr \in AttemptCalls :
          /\ attempt' = [kind |-> "function", expr |-> expr,
                         did |-> apply_function_specialization(specializers, expr, expr.callee)]
          /\ specializers' = looked_up(specializers, expr.callee.fullname, None)
    /\ UNCHANGED <<registered, tried>>
    /\ UNCHANGED <<mapperVars, lowerVars, sigVars, contextVars, generatorVars, envVars, truncVars, execVars, boolVars>>

\* A call of a method is compiled: apply_method_specialization, with the
\* receiver's type or, for an attribute of a module, without one.
ApplyMethod ==
    /\ registered >= Len(ModuleRegistrations)
    /\ attempt = NotRun
    /\ tried = NotRun
    /\ \E expr \in AttemptCalls :
          /\ expr.callee.cls = "MemberExpr"
          /\ \E typ \in {None, node_type(expr.callee.expr)} :
                /\ attempt' = [kind |-> "method", expr |-> expr, typ |-> typ,
                               did |-> apply_method_specialization(
                                           specializers, expr, expr.callee, typ)]
                /\ specializers' =
                      looked_up(specializers,
                                IF typ = None THEN expr.callee.fullname ELSE expr.callee.name,
                                typ)
    /\ UNCHANGED <<registered, tried>>
    /\ UNCHANGED <<mapperVars, lowerVars, sigVars, contextVars, generatorVars, envVars, truncVars, execVars, boolVars>>

\* The caller has taken the result of the attempt.
AttemptReturned ==
    /\ attempt # NotRun
    /\ attempt' = NotRun
    /\ UNCHANGED <<specializers, registered, tried>>
    /\ UNCHANGED <<mapperVars, lowerVars, sigVars, contextVars, generatorVars, envVars, truncVars, execVars, boolVars>>

RegistryNext ==
    \/ ImportSpecialize
    \/ SpecializeFunction
    \/ ApplyFunction
    \/ ApplyMethod
    \/ AttemptReturned

SpecRegistry == Init /\ [][RegistryNext]_vars

\* ----------------------------------------------------------- SpecRules
\* Each specializer on its own, on every call shape.

\* The longest argument list of a call.
MaxArgs == 2

\* The most variadic arguments a call passes after its other arguments.
MaxRest == 1

\* A trailing *x argument: mypy accepts it after any argument list, since the
\* iterable may be empty.
Variadic == [node |-> x_object, kind |-> ARG_STAR, name |-> ""]

\* specializer(builder, expr, callee) is called for one call expression.
TryRule ==
    /\ tried = NotRun
    /\ attempt = NotRun
    /\ registered = 0
    /\ \E f \in Specializers : \E callee \in Callees(f) :
       \E given \in SeqsUpTo(Args(f), MaxArgs) : \E rest \in SeqsUpTo({Variadic}, MaxRest) :
          LET args == given \o rest
              expr == Call(callee, args, CallType(f))
          IN  tried' = [f |-> f, expr |-> expr, out |-> RunSpecializer(f, expr, callee)]
    /\ UNCHANGED <<specializers, registered, attempt>>
    /\ UNCHANGED <<mapperVars, lowerVars, sigVars, contextVars, generatorVars, envVars, truncVars, execVars, boolVars>>

\* The specializer has returned to its caller.
RuleReturned ==
    /\ tried # NotRun
    /\ tried' = NotRun
    /\ UNCHANGED <<specializers, registered, attempt>>
    /\ UNCHANGED <<mapperVars, lowerVars, sigVars, contextVars, generatorVars, envVars, truncVars, execVars, boolVars>>

RulesNext ==
    \/ TryRule
    \/ RuleReturned

SpecRules == Init /\ [][RulesNext]_vars

\* ------------------------------------------------------------- SpecSig

\* The longest parameter list the model enumerates.
MaxParams == 2

\* The parameters functions are declared with: name, kind, declared type
\* and whether the parameter is position-only.
Param(name, kind, typ, pos_only) ==
    [name |-> name, kind |-> kind, typ |-> typ, pos_only |-> pos_only]

Params ==
    {Param("x", ARG_POS, Instance(Builtin("builtins.int")), FALSE),
     Param("p", ARG_POS, Instance(Builtin("builtins.str")), TRUE),
     Param("args", ARG_STAR, Instance(Builtin("builtins.int")), FALSE),
     Param("kw", ARG_STAR2, Instance(Builtin("builtins.int")), FALSE),
     Param("c", ARG_NAMED, Instance(ClassC), FALSE)}

RetTypes == {Instance(Builtin("builtins.int")), NoneTyp, PlaceholderType}

FuncNames == {"f", "__init__", "__eq__", "__ge__"}

FuncIds == {1, 2}

\* The name a FuncDef and a CallableType list for a parameter: None for a
\* position-only one.
ListedName(p) == IF p.pos_only THEN None ELSE Some(p.name)

\* The type the checker inferred for an annotated function of these
\* parameters.
TypeOf(params, ret_type) ==
    FuncType([i \in DOMAIN params |-> params[i].typ],
             [i \in DOMAIN params |-> params[i].kind],
             [i \in DOMAIN params |-> ListedName(params[i])],
             ret_type)

\* The FuncDef of a function of these parameters; a deserialized
\* one has no arguments attribute.
FuncDefOf(id, name, params, type, deserialized, flags, info) ==
    FuncDef(id, name, type,
            IF deserialized THEN None
            ELSE Some([i \in DOMAIN params |-> Argument(params[i].name, params[i].pos_only)]),
            [i \in DOMAIN params |-> params[i].kind],
            [i \in DOMAIN params |-> ListedName(params[i])],
            flags, info)

Flags(is_coroutine, is_generator, is_decorated) ==
    [is_coroutine |-> is_coroutine, is_generator |-> is_generator,
     is_decorated |-> is_decorated]

FlagChoices ==
    {Flags(FALSE, FALSE, FALSE), Flags(FALSE, TRUE, FALSE), Flags(TRUE, FALSE, FALSE),
     Flags(FALSE, TRUE, TRUE), Flags(FALSE, FALSE, TRUE)}

\* The type of the function: the one the checker inferred from its
\* annotations, or None.
DeclaredType(params, annotated, ret) ==
    IF annotated THEN TypeOf(params, ret) ELSE None

\* The class of the generator object of a function.
GeneratorIR(id) == [k |-> "ClassIR", name |-> IF id = 1 THEN "f_gen" ELSE "g_gen"]

\* Preparation gives a generator or coroutine its class.
RegisterGenerator(id) ==
    /\ sig = NotRun
    /\ id \notin DOMAIN fdef_to_generator
    /\ fdef_to_generator' = [x \in DOMAIN fdef_to_generator \cup {id} |->
                               IF x = id THEN GeneratorIR(id) ELSE fdef_to_generator[x]]
    /\ UNCHANGED sig
    /\ UNCHANGED <<mapperVars, lowerVars, registryVars, ruleVars, execVars, boolVars>>
    /\ UNCHANGED <<contextVars, generatorVars, envVars, truncVars>>

\* One call mapper.fdef_to_sig(fdef, strict_dunders_typing), of an annotated
\* method, an unannotated function or an unannotated method.
FdefToSig ==
    /\ sig = NotRun
    /\ \E id \in FuncIds, name \in FuncNames, params \in SeqsUpTo(Params, MaxParams),
          annotated \in BOOLEAN, ret \in RetTypes, deserialized \in BOOLEAN,
          flags \in FlagChoices, info \in BOOLEAN, strict_dunders_typing \in BOOLEAN :
          /\ annotated => info
          /\ ~annotated => ret = NoneTyp
          /\ LET fdef == FuncDefOf(id, name, params, DeclaredType(params, annotated, ret),
                                   deserialized, flags, info)
             IN  sig' = [params |-> params, fdef |-> fdef,
                         strict_dunders_typing |-> strict_dunders_typing,
                         out |-> fdef_to_sig(fdef, strict_dunders_typing, fdef_to_generator)]
    /\ UNCHANGED fdef_to_generator
    /\ UNCHANGED <<mapperVars, lowerVars, registryVars, ruleVars, execVars, boolVars>>
    /\ UNCHANGED <<contextVars, generatorVars, envVars, truncVars>>

\* The caller has taken the signature.
SigReturned ==
    /\ sig # NotRun
    /\ sig' = NotRun
    /\ UNCHANGED fdef_to_generator
    /\ UNCHANGED <<mapperVars, lowerVars, registryVars, ruleVars, execVars, boolVars>>
    /\ UNCHANGED <<contextVars, generatorVars, envVars, truncVars>>

SigNext ==
    \/ \E id \in FuncIds : RegisterGenerator(id)
    \/ FdefToSig
    \/ SigReturned

SpecSig == Init /\ [][SigNext]_vars

\* =======================================================================
\* mypyc/irbuild/context.py
\* =======================================================================

\* The links of a FuncInfo that a property guards and a setter attaches.
FuncInfoLinks == {"callable_class", "env_class", "generator_class"}

\* curr_env_reg of a FuncInfo is guarded and has no setter.
FuncInfoGuarded == FuncInfoLinks \cup {"curr_env_reg"}

\* The links of an ImplicitClass.
ImplicitClassLinks == {"self_reg", "curr_env_reg", "prev_env_reg"}

\* The links of a GeneratorClass: those it inherits and its own.
GeneratorClassLinks == ImplicitClassLinks \cup {"next_label_reg", "next_label_target"}

\* The attributes of a GeneratorClass that no property guards.
GeneratorClassSlots == {"exc_regs", "send_arg_reg", "stop_iter_value_reg"}

\* FuncInfo.__init__: no link is attached.
FuncInfo(fitem, is_nested, contains_nested) ==
    [links |-> [l \in FuncInfoGuarded |-> None], fitem |-> fitem,
     is_nested |-> is_nested, contains_nested |-> contains_nested]

\* The attributes of a FuncItem that FuncInfo reads.
FuncItem(is_generator, is_coroutine) ==
    [is_generator |-> is_generator, is_coroutine |-> is_coroutine]

\* GeneratorClass.__init__, ImplicitClass.__init__ included: every link and
\* every slot is None.
GeneratorClass == [l \in GeneratorClassLinks \cup GeneratorClassSlots |-> None]

GetterUnguarded(attrs, link) == attrs[link]

\* A guarded property: assert self._x is not None; return self._x
Getter(attrs, link) ==
    IF attrs[link] = None THEN AssertionError ELSE attrs[link]

SetterOnce(attrs, link, value) ==
    [attrs EXCEPT ![link] = IF attrs[link] = None THEN Some(value) ELSE attrs[link]]

\* A setter, or an assignment to a public attribute: self._x = value
Setter(attrs, link, value) == [attrs EXCEPT ![link] = Some(value)]

\* FuncInfo.is_generator
is_generator(info) == info.fitem.is_generator \/ info.fitem.is_coroutine

\* FuncInfo.is_coroutine
is_coroutine(info) == info.fitem.is_coroutine

can_merge_ignoring_contained(info) == is_generator(info) /\ ~info.is_nested

\* FuncInfo.can_merge_generator_and_env_classes
can_merge_generator_and_env_classes(info) ==
    is_generator(info) /\ ~info.is_nested /\ ~info.contains_nested

\* ---------------------------------------------------------- SpecContext

\* The most attach operations of one run of the model.
MaxAttach == 2

\* An attach operation: of which object, which link, which value.
Attached(obj, link, value) == [obj |-> obj, link |-> link, value |-> value]

\* Every attach stores a value created for it: the n-th register or class.
Fresh == Len(attached) + 1

\* The builder enters a function.
NewFuncInfo ==
    /\ fn_info = NotRun
    /\ \E g \in BOOLEAN, c \in BOOLEAN, n \in BOOLEAN, cn \in BOOLEAN :
          fn_info' = FuncInfo(FuncItem(g, c), n, cn)
    /\ UNCHANGED <<gen_class, attached, ctx_read>>
    /\ UNCHANGED <<mapperVars, lowerVars, registryVars, ruleVars, execVars, boolVars>>
    /\ UNCHANGED <<sigVars, generatorVars, envVars, truncVars>>

\* The builder creates the generator class of the function.
NewGeneratorClass ==
    /\ fn_info # NotRun
    /\ gen_class = NotRun
    /\ gen_class' = GeneratorClass
    /\ UNCHANGED <<fn_info, attached, ctx_read>>
    /\ UNCHANGED <<mapperVars, lowerVars, registryVars, ruleVars, execVars, boolVars>>
    /\ UNCHANGED <<sigVars, generatorVars, envVars, truncVars>>

\* fn_info.callable_class = v, fn_info.env_class = v, fn_info.generator_class = v
AttachFuncInfo(link) ==
    /\ fn_info # NotRun
    /\ ctx_read = NotRun
    /\ Len(attached) < MaxAttach
    /\ fn_info' = [fn_info EXCEPT !.links = Setter(fn_info.links, link, Fresh)]
    /\ attached' = Append(attached, Attached("FuncInfo", link, Fresh))
    /\ UNCHANGED <<gen_class, ctx_read>>
    /\ UNCHANGED <<mapperVars, lowerVars, registryVars, ruleVars, execVars, boolVars>>
    /\ UNCHANGED <<sigVars, generatorVars, envVars, truncVars>>

\* cls.self_reg = v, ..., cls.next_label_target = v, cls.exc_regs = v, ...
AttachGeneratorClass(link) ==
    /\ gen_class # NotRun
    /\ ctx_read = NotRun
    /\ Len(attached) < MaxAttach
    /\ gen_class' = Setter(gen_class, link, Fresh)
    /\ attached' = Append(attached, Attached("GeneratorClass", link, Fresh))
    /\ UNCHANGED <<fn_info, ctx_read>>
    /\ UNCHANGED <<mapperVars, lowerVars, registryVars, ruleVars, execVars, boolVars>>
    /\ UNCHANGED <<sigVars, generatorVars, envVars, truncVars>>

Read(obj, link, out) == [obj |-> obj, link |-> link, out |-> out]

\* fn_info.callable_class, fn_info.env_class, ..., fn_info.curr_env_reg
ReadFuncInfo(link) ==
    /\ fn_info # NotRun
    /\ ctx_read = NotRun
    /\ ctx_read' = Read("FuncInfo", link, Getter(fn_info.links, link))
    /\ UNCHANGED <<fn_info, gen_class, attached>>
    /\ UNCHANGED <<mapperVars, lowerVars, registryVars, ruleVars, execVars, boolVars>>
    /\ UNCHANGED <<sigVars, generatorVars, envVars, truncVars>>

\* cls.self_reg, ..., cls.next_label_target
ReadGeneratorClass(link) ==
    /\ gen_class # NotRun
    /\ ctx_read = NotRun
    /\ ctx_read' = Read("GeneratorClass", link, Getter(gen_class, link))
    /\ UNCHANGED <<fn_info, gen_class, attached>>
    /\ UNCHANGED <<mapperVars, lowerVars, registryVars, ruleVars, execVars, boolVars>>
    /\ UNCHANGED <<sigVars, generatorVars, envVars, truncVars>>

\* cls.exc_regs, cls.send_arg_reg, cls.stop_iter_value_reg
ReadSlot(slot) ==
    /\ gen_class # NotRun
    /\ ctx_read = NotRun
    /\ ctx_read' = Read("GeneratorClass", slot, gen_class[slot])
    /\ UNCHANGED <<fn_info, gen_class, attached>>
    /\ UNCHANGED <<mapperVars, lowerVars, registryVars, ruleVars, execVars, boolVars>>
    /\ UNCHANGED <<sigVars, generatorVars, envVars, truncVars>>

\* fn_info.can_merge_generator_and_env_classes()
QueryMerge ==
    /\ fn_info # NotRun
    /\ ctx_read = NotRun
    /\ ctx_read' = Read("FuncInfo", "can_merge_generator_and_env_classes",
                        Some(can_merge_generator_and_env_classes(fn_info)))
    /\ UNCHANGED <<fn_info, gen_class, attached>>
    /\ UNCHANGED <<mapperVars, lowerVars, registryVars, ruleVars, execVars, boolVars>>
    /\ UNCHANGED <<sigVars, generatorVars, envVars, truncVars>>

\* The caller has taken what it read.
ReadReturned ==
    /\ ctx_read # NotRun
    /\ ctx_read' = NotRun
    /\ UNCHANGED <<fn_info, gen_class, attached>>
    /\ UNCHANGED <<mapperVars, lowerVars, registryVars, ruleVars, execVars, boolVars>>
    /\ UNCHANGED <<sigVars, generatorVars, envVars, truncVars>>

ContextNext ==
    \/ NewFuncInfo
    \/ NewGeneratorClass
    \/ \E link \in FuncInfoLinks : AttachFuncInfo(link)
    \/ \E link \in GeneratorClassLinks \cup GeneratorClassSlots : AttachGeneratorClass(link)
    \/ \E link \in FuncInfoGuarded : ReadFuncInfo(link)
    \/ \E link \in GeneratorClassLinks : ReadGeneratorClass(link)
    \/ \E slot \in GeneratorClassSlots : ReadSlot(slot)
    \/ QueryMerge
    \/ ReadReturned

SpecContext == Init /\ [][ContextNext]_vars

\* --------------------------------------------------------- SpecGenerator

\* The most yield sites of the generator the model runs: its continuation
\* blocks are 1..MaxYields, its start block is 0.
MaxYields == 4

\* The value of the resume label of a generator that has finished.
Exhausted == -1

ContinuationBlocks == 1..MaxYields

\* What a resume gives its caller.
Yielded(value) == [k |-> "Yielded", value |-> value]

StopIteration == [k |-> "StopIteration"]

RaisedInBody(exc) == [k |-> "Raised", exc |-> exc]

Terminal == {StopIteration} \cup {RaisedInBody(e) : e \in {"E1", "E2"}}

\* The operations on a generator object: next(g), g.send(v), g.throw(e).
ResumeOp(name, arg) == [name |-> name, arg |-> arg]

\* What the code of a block does with the control it is given: it runs to the
\* next yield site, returns, or raises; a thrown exception is raised at the
\* resume point, where the block may catch it and go on.
Behaviour(k, value) == [k |-> k, value |-> value]

Behaviours(op) ==
    {Behaviour("yield", v) : v \in {"v1", "v2"}} \cup {Behaviour("return", "none")}
    \cup {Behaviour("raise", e) : e \in IF op.name = "throw" THEN {op.arg} ELSE {"E1", "E2"}}

\* One resume: the label after it, the block the dispatch entered (None when
\* it entered none) and what the caller gets.
Resumed(label, entered, out) == [label |-> label, entered |-> entered, out |-> out]

ResumeReentering(label, op, behaviour) ==
    IF behaviour.k = "yield" /\ label # Exhausted /\ label < MaxYields
    THEN Resumed(label + 1, Some(label), Yielded(behaviour.value))
    ELSE IF behaviour.k = "yield" /\ label = Exhausted
    THEN Resumed(1, Some(0), Yielded(behaviour.value))
    ELSE IF behaviour.k = "raise"
    THEN Resumed(Exhausted, Some(label), RaisedInBody(behaviour.value))
    ELSE Resumed(Exhausted, Some(label), StopIteration)

\* The dispatch block branches on the resume label: an exhausted generator
\* enters no block and ends at once; a block that yields stores the label of
\* its yield site; a block that returns or raises, and the last block,
\* stores the sentinel.
Resume(label, op, behaviour) ==
    IF label = Exhausted
    THEN Resumed(Exhausted, None,
                 IF op.name = "throw" THEN RaisedInBody(op.arg) ELSE StopIteration)
    ELSE IF behaviour.k = "yield" /\ label < MaxYields
    THEN Resumed(label + 1, Some(label), Yielded(behaviour.value))
    ELSE IF behaviour.k = "raise"
    THEN Resumed(Exhausted, Some(label), RaisedInBody(behaviour.value))
    ELSE Resumed(Exhausted, Some(label), StopIteration)

\* A resume of the generator object: gen_run records the operation, the label
\* it found and what it did.
ResumeGenerator(op) ==
    /\ \E behaviour \in Behaviours(op) :
          LET r == Resume(gen_label, op, behaviour)
          IN  /\ gen_label' = r.label
              /\ gen_run' = [op |-> op, from |-> gen_label, entered |-> r.entered,
                             out |-> r.out]
    /\ UNCHANGED <<mapperVars, lowerVars, registryVars, ruleVars, execVars, boolVars>>
    /\ UNCHANGED <<sigVars, contextVars, envVars, truncVars>>

\* A new generator object is created: it has not started.
NewGenerator ==
    /\ gen_run # NotRun
    /\ gen_label' = 0
    /\ gen_run' = NotRun
    /\ UNCHANGED <<mapperVars, lowerVars, registryVars, ruleVars, execVars, boolVars>>
    /\ UNCHANGED <<sigVars, contextVars, envVars, truncVars>>

GeneratorNext ==
    \/ ResumeGenerator(ResumeOp("next", "none"))
    \/ \E v \in {"v1", "v2"} : ResumeGenerator(ResumeOp("send", v))
    \/ \E e \in {"E1", "E2"} : ResumeGenerator(ResumeOp("throw", e))
    \/ NewGenerator

SpecGenerator == Init /\ [][GeneratorNext]_vars

\* --------------------------------------------------------------- SpecEnv

\* The variables of an enclosing function and the functions nested in it.
EnclosingVars == {"x", "y", "z"}

NestedFuncs == {"inner1", "inner2", "inner3"}

add_var_to_env_class_appending(slots, var) == Append(slots, var)

\* The environment class gains a slot for a captured variable: its slots are
\* keyed by variable, so a variable that has a slot keeps it.
add_var_to_env_class(slots, var) ==
    IF var \in Range(slots) THEN slots ELSE Append(slots, var)

\* A nested function captures a variable of the enclosing function.
Capture(fn, var) ==
    /\ <<fn, var>> \notin captures
    /\ env_slots' = add_var_to_env_class(env_slots, var)
    /\ captures' = captures \cup {<<fn, var>>}
    /\ UNCHANGED <<mapperVars, lowerVars, registryVars, ruleVars, execVars, boolVars>>
    /\ UNCHANGED <<sigVars, contextVars, generatorVars, truncVars>>

\* The same function refers to a variable it has captured once more.
Recapture(fn, var) ==
    /\ <<fn, var>> \in captures
    /\ env_slots' = add_var_to_env_class(env_slots, var)
    /\ UNCHANGED captures
    /\ UNCHANGED <<mapperVars, lowerVars, registryVars, ruleVars, execVars, boolVars>>
    /\ UNCHANGED <<sigVars, contextVars, generatorVars, truncVars>>

EnvNext ==
    \/ \E fn \in NestedFuncs, var \in EnclosingVars : Capture(fn, var)
    \/ \E fn \in NestedFuncs, var \in EnclosingVars : Recapture(fn, var)

SpecEnv == Init /\ [][EnvNext]_vars

\* ---------------------------------------------------------- SpecTruncate

\* The literals the model truncates: every integer up to MaxLiteral in
\* absolute value, and those around the powers of two of the wider types.
MaxLiteral == 260

EdgeLiterals ==
    {32767, 32768, 32769, 65535, 65536, 65537, -32768, -32769, -65535, -65536,
     2147483647, -2147483647, -2147483647 - 1}

Literals == (-MaxLiteral..MaxLiteral) \cup EdgeLiterals

\* The targets: the native integer types of mypyc, and a signed type of one
\* byte and an unsigned type of two.
Targets ==
    {int64_rprimitive, int32_rprimitive, int16_rprimitive, uint8_rprimitive,
     NativeInt("i8", 1, TRUE), NativeInt("u16", 2, FALSE)}

\* The values truncate_literal is given: literals, and values that are none.
TruncateValues ==
    {Integer(x, short_int_rprimitive) : x \in Literals}
    \cup {Register(int_rprimitive), Register(bool_rprimitive)}

\* One call truncate_literal(value, rtype), and the truncation of its result.
TruncateLiteral ==
    /\ trunc = NotRun
    /\ \E value \in TruncateValues, rtype \in Targets :
          LET out == truncate_literal(value, rtype)
          IN  trunc' = [value |-> value, rtype |-> rtype, out |-> out,
                        again |-> truncate_literal(out, rtype)]
    /\ UNCHANGED <<mapperVars, lowerVars, registryVars, ruleVars, execVars, boolVars>>
    /\ UNCHANGED <<sigVars, contextVars, generatorVars, envVars>>

\* The caller has taken the result.
TruncateReturned ==
    /\ trunc # NotRun
    /\ trunc' = NotRun
    /\ UNCHANGED <<mapperVars, lowerVars, registryVars, ruleVars, execVars, boolVars>>
    /\ UNCHANGED <<sigVars, contextVars, generatorVars, envVars>>

TruncateNext ==
    \/ TruncateLiteral
    \/ TruncateReturned

SpecTruncate == Init /\ [][TruncateNext]_vars

\* ------------------------------------------------------------- SpecExec
\* The code a rule emitted, run on the values of a program: the elements the
\* comprehension of the call produces, in order, and the value of the
\* variable the other argument expressions read.  Values are integers; a
\* value is true when it is not 0.

\* The most elements a comprehension produces.
MaxElems == 3

\* The largest value of an element or a variable.
MaxValue == 2

Values == 0..MaxValue

Env(elems, x) == [elems |-> elems, x |-> x]

\* The rules whose emitted code is run.
Executed == {"translate_any_call", "translate_all_call", "translate_next_call", "faster_min_max"}

\* The machine a piece of emitted code runs on: the register the code
\* assigns with the Value last assigned to it, the value the last expression
\* left, the expressions evaluated so far, the exception raised and the block
\* a goto is heading for.
Machine(reg, src, acc, trace, exc, jump) ==
    [reg |-> reg, src |-> src, acc |-> acc, trace |-> trace, exc |-> exc, jump |-> jump]

Started == Machine(None, None, 0, <<>>, None, None)

\* An evaluation of the comprehension's element expression for the i-th
\* element, and of an argument expression.
EvalElem(i) == [e |-> "left_expr", i |-> i]

EvalArg(node) == [e |-> "accept", node |-> node]

Truth(b) == IF b THEN 1 ELSE 0

\* The value of a Value of the emitted code: an integer literal is its
\* number, true and false are 1 and 0, the element expression is the current
\* element and any other expression reads the variable.
ValueOfAtom(val, env, cur) ==
    IF val.v = "Integer" THEN val.value
    ELSE IF val = Result("true") THEN 1
    ELSE IF val = Result("false") THEN 0
    ELSE IF val = Result("left_expr") THEN env.elems[cur]
    ELSE env.x

\* A coercion keeps the value.
ValueOf(val, env, cur) ==
    IF val.v = "coerce" THEN ValueOfAtom(val.src, env, cur) ELSE ValueOfAtom(val, env, cur)

\* The positions of a list of instructions at which the block starts.
BlockStart(ops, block) ==
    {k \in DOMAIN ops :
        \/ ops[k] = Activate(block)
        \/ ops[k] = Op("goto_and_activate_exit_block") /\ block = "exit_block"}

\* One instruction that neither branches nor loops.
Straight(op, m, env, cur) ==
    CASE op.op = "assign" ->
            [m EXCEPT !.reg = Some(ValueOf(op.src, env, cur)), !.src = Some(op.src)]
      [] op.op = "accept" ->
            [m EXCEPT !.acc = ValueOf(Accepted(op.node), env, cur),
                      !.trace = Append(m.trace, EvalArg(op.node))]
      [] op.op = "accept_left_expr" ->
            [m EXCEPT !.acc = env.elems[cur], !.trace = Append(m.trace, EvalElem(cur))]
      [] op.op = "unary_op" -> [m EXCEPT !.acc = Truth(m.acc = 0)]
      [] op.op = "binary_op" ->
            LET left == ValueOf(op.args[1], env, cur)
                right == ValueOf(op.args[2], env, cur)
            IN  [m EXCEPT !.acc = Truth(IF op.args[3] = "<" THEN left < right ELSE left > right)]
      [] op.op = "RaiseStandardError(STOP_ITERATION)" -> [m EXCEPT !.exc = Some("StopIteration")]
      [] OTHER -> m

RECURSIVE RunOps(_, _, _, _, _)
RECURSIVE RunLoop(_, _, _, _)

\* Control goes to a block: on within these instructions when the block is
\* among them, out of them otherwise.
GoTo(ops, block, m, env, cur) ==
    IF BlockStart(ops, block) # {}
    THEN RunOps(ops, CHOOSE k \in BlockStart(ops, block) : TRUE, m, env, cur)
    ELSE [m EXCEPT !.jump = Some(block)]

\* The instructions from position pc on, until they end, raise, or control
\* leaves them.
RunOps(ops, pc, m, env, cur) ==
    IF pc > Len(ops) \/ m.exc # None
    THEN m
    ELSE LET op == ops[pc]
         IN  CASE op.op = "goto" -> GoTo(ops, op.block, m, env, cur)
               [] op.op = "add_bool_branch" ->
                     GoTo(ops, IF m.acc # 0 THEN op.true ELSE op.false, m, env, cur)
               [] op.op = "comprehension" ->
                     LET after == RunLoop(op.body, 1, m, env)
                     IN  IF after.jump # None
                         THEN GoTo(ops, after.jump.v, [after EXCEPT !.jump = None], env, cur)
                         ELSE RunOps(ops, pc + 1, after, env, cur)
               [] OTHER -> RunOps(ops, pc + 1, Straight(op, m, env, cur), env, cur)

\* for_helpers.comprehension_helper: the body once for each element from the
\* i-th on, until the body raises or control leaves the loop.
RunLoop(body, i, m, env) ==
    IF i > Len(env.elems) \/ m.exc # None \/ m.jump # None
    THEN m
    ELSE RunLoop(body, i + 1, RunOps(body, 1, m, env, i), env)

\* The emitted code of a call from its first instruction.
Execution(ops, env) == RunOps(ops, 1, Started, env, 0)

\* A rule compiles one call.
Compile ==
    /\ run = NotRun
    /\ \E f \in Executed : \E callee \in Callees(f) : \E args \in SeqsUpTo(Args(f), MaxArgs) :
          LET expr == Call(callee, args, CallType(f))
          IN  run' = [phase |-> "compiled", f |-> f, expr |-> expr,
                      out |-> RunSpecializer(f, expr, callee)]
    /\ UNCHANGED <<mapperVars, lowerVars, registryVars, ruleVars>>
    /\ UNCHANGED <<sigVars, contextVars, generatorVars, envVars, truncVars, boolVars>>

\* The compiled program runs the code the rule emitted for the call.
Execute ==
    /\ run # NotRun
    /\ run.phase = "compiled"
    /\ run.out.val # None
    /\ \E elems \in SeqsUpTo(Values, MaxElems), x \in Values :
          run' = [phase |-> "executed", f |-> run.f, expr |-> run.expr, out |-> run.out,
                  env |-> Env(elems, x), final |-> Execution(run.out.ops, Env(elems, x))]
    /\ UNCHANGED <<mapperVars, lowerVars, registryVars, ruleVars>>
    /\ UNCHANGED <<sigVars, contextVars, generatorVars, envVars, truncVars, boolVars>>

\* The call is done with.
Finished ==
    /\ run # NotRun
    /\ run' = NotRun
    /\ UNCHANGED <<mapperVars, lowerVars, registryVars, ruleVars>>
    /\ UNCHANGED <<sigVars, contextVars, generatorVars, envVars, truncVars, boolVars>>

ExecNext ==
    \/ Compile
    \/ Execute
    \/ Finished

SpecExec == Init /\ [][ExecNext]_vars

\* ------------------------------------------------------------- SpecBool
\* mypy/semanal_shared.py: require_bool_literal_argument and parse_bool.  A
\* value of type bool | None is Some(TRUE), Some(FALSE) or None.

\* parse_bool, were every reference to builtins.True or builtins.False a
\* literal, a member expression included.
parse_bool_of_any_reference(expr) ==
    IF expr.cls \in {"NameExpr", "MemberExpr"}
    THEN IF expr.fullname = "builtins.True" THEN Some(TRUE)
         ELSE IF expr.fullname = "builtins.False" THEN Some(FALSE)
         ELSE None
    ELSE None

parse_bool(expr) ==
    IF expr.cls = "NameExpr"
    THEN IF expr.fullname = "builtins.True" THEN Some(TRUE)
         ELSE IF expr.fullname = "builtins.False" THEN Some(FALSE)
         ELSE None
    ELSE None

\* api.fail(f'"{name}" argument must be a True or False literal', expression,
\* code=LITERAL_REQ): the failure the analyzer records.
LiteralRequired(name, expression) ==
    [msg |-> <<"\"", name, "\" argument must be a True or False literal">>,
     ctx |-> expression, code |-> "LITERAL_REQ"]

\* The value returned and the failures the analyzer holds afterwards.
require_bool_literal_argument(api, expression, name, default) ==
    LET value == parse_bool(expression)
    IN  IF value = None
        THEN [out |-> default, api |-> Append(api, LiteralRequired(name, expression))]
        ELSE [out |-> value, api |-> api]

\* The most failures the analyzer collects.
MaxErrors == 2

\* The expressions given as the argument: True, False, None, a variable, a
\* number, and builtins.True written as an attribute of the module.
BoolArguments ==
    {Ref("builtins.True", None), Ref("builtins.False", None), Ref("builtins.None", None),
     Var("flag", bool_rprimitive), IntExpr(1),
     MemberExpr(Ref("builtins", None), "True", "builtins.True")}

ArgumentNames == {"frozen", "eq"}

Defaults == {None, Some(TRUE), Some(FALSE)}

\* parse_bool(expr) is called.
ParseBool ==
    /\ req = NotRun
    /\ \E expr \in BoolArguments :
          req' = [fn |-> "parse_bool", expression |-> expr, out |-> parse_bool(expr)]
    /\ UNCHANGED errors
    /\ UNCHANGED <<mapperVars, lowerVars, registryVars, ruleVars>>
    /\ UNCHANGED <<sigVars, contextVars, generatorVars, envVars, truncVars, execVars>>

\* require_bool_literal_argument(api, expression, name, default) is called.
RequireBool ==
    /\ req = NotRun
    /\ Len(errors) < MaxErrors
    /\ \E expr \in BoolArguments, name \in ArgumentNames, default \in Defaults :
          LET did == require_bool_literal_argument(errors, expr, name, default)
          IN  /\ req' = [fn |-> "require_bool_literal_argument", expression |-> expr,
                         name |-> name, default |-> default, out |-> did.out]
              /\ errors' = did.api
    /\ UNCHANGED <<mapperVars, lowerVars, registryVars, ruleVars>>
    /\ UNCHANGED <<sigVars, contextVars, generatorVars, envVars, truncVars, execVars>>

\* The caller has taken the result.
BoolReturned ==
    /\ req # NotRun
    /\ req' = NotRun
    /\ UNCHANGED errors
    /\ UNCHANGED <<mapperVars, lowerVars, registryVars, ruleVars>>
    /\ UNCHANGED <<sigVars, contextVars, generatorVars, envVars, truncVars, execVars>>

BoolNext ==
    \/ ParseBool
    \/ RequireBool
    \/ BoolReturned

SpecBool == Init /\ [][BoolNext]_vars

\* =======================================================================
\* Properties of Mapper.type_to_rtype (SpecMapper, SpecLower)
\* =======================================================================

Lowered == mtyp # NotRun

\* The types that are unresolved, erroneous or placeholders.
UnresolvedTypes ==
    {None, AnyType, UnboundType, UninhabitedType, PlaceholderType, PartialType(None)}

\* C5 as stated: lowering an absent type, Any, an unbound type, an
\* uninhabited type, a placeholder type or a partial type whose variable has
\* no type returns the boxed object and fails no assertion.
C5_UnresolvedLowersToObject ==
    mtyp \in UnresolvedTypes => mret = object_rprimitive

\* C5, amended: lowering an absent type, Any, an unbound type or an
\* uninhabited type returns the boxed object; lowering a placeholder type
\* fails the "unexpected type" assertion and lowering a partial type whose
\* variable has no type fails the assertion on the variable's type.
C5_UnresolvedLowersToObjectOrAsserts ==
    /\ mtyp \in {None, AnyType, UnboundType, UninhabitedType} => mret = object_rprimitive
    /\ mtyp \in {PlaceholderType, PartialType(None)} => mret = AssertionError

C5_Witness ==
    /\ mtyp = PlaceholderType
    /\ mret = AssertionError

\* C7: lowering a union does not depend on the order of its members nor on
\* duplicates: Union[A, B] lowers as Union[B, A] does, and Union[A, A] as A
\* does (both fail when lowering a member fails).
C7_UnionOrderAndDuplicates ==
    (mtyp.k = "UnionType" /\ Len(mtyp.items) = 2) =>
        /\ mret = type_to_rtype(UnionType(<<mtyp.items[2], mtyp.items[1]>>))
        /\ mtyp.items[1] = mtyp.items[2] => mret = type_to_rtype(mtyp.items[1])

C7_Witness ==
    /\ ClassP \in DOMAIN type_to_ir
    /\ mtyp = UnionType(<<Instance(ClassP), Instance(ClassP)>>)
    /\ mret = RUnion(<<RInstance(ClassIR(ClassP)), object_rprimitive>>)

HasDictAncestor(info) == \E i \in DOMAIN info.mro : info.mro[i] = "builtins.dict"

\* C8: an instance type whose class has builtins.dict in its MRO lowers to
\* the dict representation, also when the class is a registered compiled
\* class.
C8_DictAncestryLowersToDict ==
    (mtyp.k = "Instance" /\ HasDictAncestor(mtyp.type)) => mret = dict_rprimitive

C8_Witness ==
    /\ ClassD \in DOMAIN type_to_ir
    /\ mtyp = Instance(ClassD)
    /\ mret = dict_rprimitive

\* The classes the built-in rules before the compiled-class rule match.
MatchedByEarlierRule(info) ==
    \/ info.fullname \in {"builtins.int", "builtins.float", "builtins.bool", "builtins.str",
                          "builtins.bytes", "builtins.list", "builtins.set",
                          "builtins.frozenset", "builtins.tuple", "builtins.range"}
    \/ HasDictAncestor(info)

\* A built-in or native integer class.
BuiltinOrNativeInt(info) ==
    info.fullname \in BuiltinNames \cup {"builtins.bool", "builtins.object"}

\* The first two parts of C9: a registered class that no earlier rule matches
\* lowers to the instance of its registered descriptor, a protocol to the
\* union of that instance and the boxed object.
C9_Registered ==
    (mtyp.k = "Instance" /\ mtyp.type \in DOMAIN type_to_ir
            /\ ~MatchedByEarlierRule(mtyp.type)) =>
        IF mtyp.type.is_protocol
        THEN /\ mret.k = "RUnion"
             /\ mret.items = {RInstance(type_to_ir[mtyp.type]), object_rprimitive}
        ELSE mret = RInstance(type_to_ir[mtyp.type])

\* C9 as stated: ... and an instance of an unregistered class that is neither
\* a built-in nor a native integer type lowers to the boxed object.
C9_InstanceOfClass ==
    /\ C9_Registered
    /\ (mtyp.k = "Instance" /\ mtyp.type \notin DOMAIN type_to_ir
            /\ ~BuiltinOrNativeInt(mtyp.type)) => mret = object_rprimitive

\* C9, amended: ... and an instance of an unregistered class that is neither
\* a built-in nor a native integer type and has no builtins.dict in its MRO
\* lowers to the boxed object (with builtins.dict in its MRO it lowers to the
\* dict representation).
C9_InstanceOfClassNoDict ==
    /\ C9_Registered
    /\ (mtyp.k = "Instance" /\ mtyp.type \notin DOMAIN type_to_ir
            /\ ~BuiltinOrNativeInt(mtyp.type)) =>
        mret = IF HasDictAncestor(mtyp.type) THEN dict_rprimitive ELSE object_rprimitive

C9_Witness ==
    /\ ClassP \in DOMAIN type_to_ir
    /\ mtyp = Instance(ClassP)
    /\ mret = [k |-> "RUnion", items |-> {RInstance(ClassIR(ClassP)), object_rprimitive}]

Subterms(typ) ==
    IF typ.k \in {"TupleType", "UnionType"} THEN typ.items
    ELSE IF typ.k = "TypeVarLikeType" THEN <<typ.upper_bound>>
    ELSE IF typ.k = "LiteralType" THEN <<typ.fallback>>
    ELSE IF typ.k = "PartialType" /\ typ.var_type # None THEN <<typ.var_type>>
    ELSE <<>>

RECURSIVE SumSizes(_, _)
RECURSIVE TypeSize(_)
\* The number of types in a (finite) type.
TypeSize(typ) == 1 + SumSizes(Subterms(typ), 1)

\* The sizes of ts[from], ts[from + 1], ... added up.
SumSizes(ts, from) ==
    IF from > Len(ts) THEN 0 ELSE TypeSize(ts[from]) + SumSizes(ts, from + 1)

\* The steps an invocation still has to make when it has received `received`
\* results and has `pending` (0 or 1) recursive calls in progress, if every
\* recursive call is on the next subterm: its own return and two steps for
\* each type of the subterms it has not yet called on.
FrameWork(typ, received, pending) ==
    1 + 2 * SumSizes(Subterms(typ), received + pending + 1)

RECURSIVE Work(_)
Work(frames) ==
    IF frames = <<>> THEN 0
    ELSE LET n == Len(frames)
         IN  FrameWork(frames[n].typ, Len(frames[n].rs), IF n = Len(stack) THEN 0 ELSE 1)
                + Work(SubSeq(frames, 1, n - 1))

\* The work left by the frames of the next state.
RECURSIVE WorkNext(_)
WorkNext(frames) ==
    IF frames = <<>> THEN 0
    ELSE LET n == Len(frames)
         IN  FrameWork(frames[n].typ, Len(frames[n].rs), IF n = Len(stack') THEN 0 ELSE 1)
                + WorkNext(SubSeq(frames, 1, n - 1))

RTypeKinds == {"RPrimitive", "RInstance", "RTuple", "RUnion"}

LowerFinished == ltyp # NotRun /\ lret # NotRun

\* C6 as stated, for a finished call: the call returned a RuntimeType.
C6_ReturnsRType == LowerFinished => lret.k \in RTypeKinds

\* Every step of a call in progress lowers the work left (a natural number),
\* so the call ends.
C6_WorkDecreases == [][stack # <<>> => WorkNext(stack') < Work(stack)]_vars

\* A call in progress can always take a step, and each recursive call is on
\* the next subterm of the calling invocation's type.
C6_Progress ==
    stack # <<>> =>
        /\ ENABLED (LowerRecurse \/ LowerReturn \/ LowerRaise)
        /\ \A i \in 2..Len(stack) :
              /\ Len(stack[i - 1].rs) < Len(Subterms(stack[i - 1].typ))
              /\ stack[i].typ = Subterms(stack[i - 1].typ)[Len(stack[i - 1].rs) + 1]

\* A finished call has one outcome, a RuntimeType or a failed assertion, and
\* it is the one the type and the class table determine.
C6_OneOutcome ==
    LowerFinished =>
        /\ lret.k \in RTypeKinds \cup {"AssertionError"}
        /\ lret = type_to_rtype(ltyp)

\* C6, amended: lowering ends on every finite static type (each recursive
\* call is on a tuple item, a union member, a type variable's upper bound, a
\* literal's fallback or a partial type's variable type), either returning
\* exactly one RuntimeType or failing an assertion; the outcome is the same
\* for the same type and the same class table.
C6_TerminatesWithOneOutcome ==
    /\ C6_WorkDecreases
    /\ [](C6_Progress /\ C6_OneOutcome)

C6_Witness ==
    /\ ClassP \in DOMAIN type_to_ir
    /\ ltyp = UnionType(<<TypeVarLikeType(Instance(ClassP)), Instance(Builtin("builtins.int"))>>)
    /\ stack = <<>>
    /\ lret = [k |-> "RUnion",
               items |-> {RInstance(ClassIR(ClassP)), object_rprimitive, int_rprimitive}]

\* --------------------------------------------- properties of the registry

\* The specializers registered under the key an attempt looked up.
RegisteredFor(did) == Lookup(specializers, <<did.name, did.typ>>)

\* C1: an attempt calls the specializers registered under its key in
\* registration order, each on the call being compiled; every one called
\* before the last declined; when the last one called returned a Value the
\* attempt returns exactly that Value and calls none of the specializers
\* registered after it; otherwise every registered specializer was called,
\* all declined, and the attempt returns None.
C1_FirstSuccessWins ==
    attempt # NotRun =>
        LET did == attempt.did
            rules == RegisteredFor(did)
            n == Len(did.calls)
        IN  /\ n <= Len(rules)
            /\ \A i \in 1..n :
                  /\ did.calls[i].f = rules[i]
                  /\ did.calls[i].out = RunSpecializer(rules[i], attempt.expr, attempt.expr.callee)
            /\ \A i \in 1..(n - 1) : did.calls[i].out.val = None
            /\ IF n > 0 /\ did.calls[n].out.val # None
               THEN did.val = did.calls[n].out.val
               ELSE n = Len(rules) /\ did.val = None

\* The second of three registered specializers succeeds after the first
\* declined; the third is not called.
C1_Witness ==
    /\ attempt # NotRun
    /\ Len(RegisteredFor(attempt.did)) = 3
    /\ Len(attempt.did.calls) = 2
    /\ attempt.did.calls[1].out.val = None
    /\ attempt.did.val # None

\* C3: every run of a specialize_function decorator appends the decorated
\* function at the end of the list of its key (name, typ), creating the list
\* when the key is new: the entries the list had stay in place, and the
\* list of every other key, the ones with the same name included, is left
\* as it was. While specialize.py is imported the key and the function are
\* those of its next decorator.
C3_RegisterAppends ==
    [][registered' # registered =>
          \E key \in DOMAIN specializers' : \E f \in Specializers :
             /\ specializers'[key] = Append(Lookup(specializers, key), f)
             /\ DOMAIN specializers' = DOMAIN specializers \cup {key}
             /\ \A other \in DOMAIN specializers :
                   other # key => specializers'[other] = specializers[other]
             /\ registered < Len(ModuleRegistrations) =>
                   /\ key = <<ModuleRegistrations[registered + 1].name,
                              ModuleRegistrations[registered + 1].typ>>
                   /\ f = ModuleRegistrations[registered + 1].f
    ]_vars

\* A specializer registered a second time under one key is there twice,
\* and the key of the same name without receiver type has a list of its own.
C3_Witness ==
    /\ Lookup(specializers, <<"join", str_rprimitive>>)
          = <<"translate_safe_generator_call", "translate_fstring",
              "translate_safe_generator_call">>
    /\ Lookup(specializers, <<"join", None>>) = <<"translate_globals">>

\* C4 as stated: a method attempt with a receiver type whose key (method
\* name, receiver type) has no list walks the list of the key (method name,
\* no receiver type); a method attempt without a receiver type walks the
\* list of the key (qualified name of the callee, no receiver type).
C4_MethodLookupFallsBack ==
    attempt # NotRun /\ attempt.kind = "method" =>
        LET callee == attempt.expr.callee
            typ == attempt.typ
        IN  attempt.did.rules =
                IF typ = None
                THEN Lookup(specializers, <<callee.fullname, None>>)
                ELSE IF <<callee.name, typ>> \in DOMAIN specializers
                THEN specializers[<<callee.name, typ>>]
                ELSE Lookup(specializers, <<callee.name, None>>)

\* C4, amended: a method attempt with a receiver type walks the list of
\* exactly the key (method name, receiver type), and when that key has no
\* list it calls no specializer and returns None, whatever is registered
\* under the method name without receiver type; a method attempt without a
\* receiver type walks the list of the key (qualified name of the callee,
\* no receiver type).
C4_MethodLookupExactKey ==
    attempt # NotRun /\ attempt.kind = "method" =>
        LET callee == attempt.expr.callee
            typ == attempt.typ
            did == attempt.did
        IN  IF typ = None
            THEN did.rules = Lookup(specializers, <<callee.fullname, None>>)
            ELSE /\ did.rules = Lookup(specializers, <<callee.name, typ>>)
                 /\ <<callee.name, typ>> \notin DOMAIN specializers =>
                       did.calls = <<>> /\ did.val = None

\* b.join(<generator>) with b of type bytes, when a specializer that
\* accepts such a call is registered under ("join", no receiver type).
C4_Witness ==
    /\ attempt # NotRun
    /\ attempt.kind = "method"
    /\ attempt.typ = bytes_rprimitive
    /\ attempt.expr.args = <<gen_list>>
    /\ Lookup(specializers, <<"join", None>>) = <<"translate_safe_generator_call">>
    /\ attempt.did.val = None

\* ----------------------------------------------- properties of the rules

SigDerived == sig # NotRun /\ sig.out.k = "FuncSignature"

\* The call was of a generator or coroutine that is not decorated and
\* whose class was registered.
UndecoratedGenerator ==
    /\ SigDerived
    /\ sig.fdef.is_coroutine \/ sig.fdef.is_generator
    /\ ~sig.fdef.is_decorated
    /\ sig.fdef.id \in DOMAIN fdef_to_generator

\* C11 as stated: the signature of every undecorated generator or coroutine,
\* annotated or not, returns the instance of its registered generator class.
C11_GeneratorRetAnyAnnotation ==
    UndecoratedGenerator =>
        sig.out.ret_type = RInstance(fdef_to_generator[sig.fdef.id])

\* C11: the signature of an undecorated generator or coroutine returns the
\* instance of its registered generator class when the function is annotated
\* and is not a comparison method in compatibility mode; the signature of an
\* unannotated one returns boxed object (None for an __init__ method).
C11_AnnotatedGeneratorRet ==
    UndecoratedGenerator =>
        /\ (/\ IsCallableType(sig.fdef.type)
            /\ (sig.strict_dunders_typing \/ sig.fdef.name \notin ComparisonDunders))
             => sig.out.ret_type = RInstance(fdef_to_generator[sig.fdef.id])
        /\ ~IsCallableType(sig.fdef.type)
             => sig.out.ret_type =
                  IF sig.fdef.name = "__init__" /\ sig.fdef.info
                  THEN none_rprimitive
                  ELSE object_rprimitive

\* An annotated generator declared to return int got the instance of its class.
C11_Witness ==
    /\ UndecoratedGenerator
    /\ IsCallableType(sig.fdef.type)
    /\ sig.fdef.type.ret_type = Instance(Builtin("builtins.int"))
    /\ sig.fdef.is_generator
    /\ sig.out.ret_type = RInstance(GeneratorIR(sig.fdef.id))

\* C12: in compatibility mode the signature of a function named as one of the
\* six comparison methods returns boxed object; in strict mode it returns what
\* the declaration gives; the signature of a function of another name is the
\* same in both modes.
C12_ComparisonDundersReturnObject ==
    SigDerived =>
        /\ (~sig.strict_dunders_typing /\ sig.fdef.name \in ComparisonDunders)
             => sig.out.ret_type = object_rprimitive
        /\ sig.strict_dunders_typing
             => sig.out.ret_type = DeclaredRet(sig.fdef, fdef_to_generator)
        /\ sig.fdef.name \notin ComparisonDunders
             => /\ sig.out = fdef_to_sig(sig.fdef, ~sig.strict_dunders_typing,
                                         fdef_to_generator)
                /\ sig.out.ret_type = DeclaredRet(sig.fdef, fdef_to_generator)

\* An __eq__ declared to return int returns object in compatibility mode.
C12_Witness ==
    /\ SigDerived
    /\ ~sig.strict_dunders_typing
    /\ sig.fdef.name = "__eq__"
    /\ IsCallableType(sig.fdef.type)
    /\ sig.fdef.type.ret_type = Instance(Builtin("builtins.int"))
    /\ ~sig.fdef.is_generator /\ ~sig.fdef.is_coroutine
    /\ sig.out.ret_type = object_rprimitive

\* The signature has one entry per parameter, in order, each with the kind
\* of its parameter.
OneEntryPerParameter ==
    /\ Len(sig.out.args) = Len(sig.params)
    /\ \A i \in DOMAIN sig.params : sig.out.args[i].kind = sig.params[i].kind

\* Another parameter of an annotated function than *args and **kwargs is the
\* lowering of its declared type, and an entry is position-only exactly when
\* the declared type lists no name for it.
AnnotatedEntriesFollowType ==
    IsCallableType(sig.fdef.type) =>
        \A i \in DOMAIN sig.params :
            /\ sig.params[i].kind \notin {ARG_STAR, ARG_STAR2}
                  => sig.out.args[i].type = type_to_rtype(sig.params[i].typ)
            /\ sig.out.args[i].pos_only <=> sig.fdef.type.arg_names[i] = None

\* C13 as stated: every entry carries the name of its parameter, and *args
\* is a tuple and **kwargs a dict in every signature.
C13_VariadicsAndOwnNames ==
    SigDerived =>
        /\ OneEntryPerParameter
        /\ AnnotatedEntriesFollowType
        /\ \A i \in DOMAIN sig.params :
              /\ sig.out.args[i].name = sig.params[i].name
              /\ sig.params[i].kind = ARG_STAR => sig.out.args[i].type = tuple_rprimitive
              /\ sig.params[i].kind = ARG_STAR2 => sig.out.args[i].type = dict_rprimitive

\* C13: the signature has one entry per parameter, in order, with its kind and
\* its name, except that the name is empty for a parameter whose name a
\* deserialized FuncDef does not list; in the signature of an annotated
\* function *args is a tuple, **kwargs a dict, another parameter the lowering
\* of its type, and the position-only ones are those the type lists no name
\* for; in the signature of an unannotated function every entry is object.
C13_EntriesFollowDeclaration ==
    SigDerived =>
        /\ OneEntryPerParameter
        /\ AnnotatedEntriesFollowType
        /\ \A i \in DOMAIN sig.params :
              /\ sig.out.args[i].name =
                    IF sig.fdef.arguments = None /\ sig.fdef.arg_names[i] = None
                    THEN ""
                    ELSE sig.params[i].name
              /\ (IsCallableType(sig.fdef.type) /\ sig.params[i].kind = ARG_STAR)
                    => sig.out.args[i].type = tuple_rprimitive
              /\ (IsCallableType(sig.fdef.type) /\ sig.params[i].kind = ARG_STAR2)
                    => sig.out.args[i].type = dict_rprimitive
              /\ ~IsCallableType(sig.fdef.type)
                    => sig.out.args[i].type = object_rprimitive

\* A signature of two parameters, *args declared int among them.
C13_Witness ==
    /\ SigDerived
    /\ Len(sig.params) = 2
    /\ sig.params[1].kind = ARG_POS /\ sig.params[1].pos_only
    /\ sig.params[2].kind = ARG_STAR
    /\ IsCallableType(sig.fdef.type)
    /\ sig.out.args[1].pos_only
    /\ sig.out.args[2].type = tuple_rprimitive
    /\ sig.out.args[2].name = "args"

\* ------------------------------------------- properties of the contexts

\* The attach operations of a link so far, oldest first.
AttachesOf(obj, link) ==
    SelectSeq(attached, LAMBDA a : a.obj = obj /\ a.link = link)

\* What a guarded link holds after these attach operations: the value of the
\* last one, and a failed assertion when there was none.
Expected(obj, link) ==
    LET as == AttachesOf(obj, link)
    IN  IF as = <<>> THEN AssertionError ELSE Some(as[Len(as)].value)

\* The links C14 names, and what reading each gives now.
ListedLinks ==
    {<<"FuncInfo", l>> : l \in FuncInfoLinks} \cup
    {<<"GeneratorClass", l>> : l \in GeneratorClassLinks}

ReadNow(obj, link) ==
    IF obj = "FuncInfo" THEN Getter(fn_info.links, link) ELSE Getter(gen_class, link)

Constructed(obj) == IF obj = "FuncInfo" THEN fn_info # NotRun ELSE gen_class # NotRun

\* C14: after any sequence of attach and read operations, reading a guarded
\* link fails an assertion exactly when the link was never attached and gives
\* the value attached last otherwise (so attaching one link changes no other);
\* the read the caller holds gave just that.
C14_GuardedLinks ==
    /\ \A ol \in ListedLinks :
          Constructed(ol[1]) => ReadNow(ol[1], ol[2]) = Expected(ol[1], ol[2])
    /\ (ctx_read # NotRun /\ <<ctx_read.obj, ctx_read.link>> \in ListedLinks)
          => ctx_read.out = Expected(ctx_read.obj, ctx_read.link)

\* A link was attached twice and another never: the read of the first gave
\* the second value.
C14_Witness ==
    /\ ctx_read # NotRun
    /\ ctx_read.obj = "GeneratorClass"
    /\ ctx_read.link = "next_label_reg"
    /\ Len(AttachesOf("GeneratorClass", "next_label_reg")) = 2
    /\ ctx_read.out = Some(2)
    /\ Getter(gen_class, "next_label_target") = AssertionError

\* The read the caller holds is of a link or slot of the generator class that
\* was never attached.
ReadBeforeAttach ==
    /\ ctx_read # NotRun
    /\ ctx_read.obj = "GeneratorClass"
    /\ AttachesOf("GeneratorClass", ctx_read.link) = <<>>

\* C15 as stated: reading an exception-state, sent-value or return-value slot
\* of a generator class before it is attached fails.
C15_SlotReadFails ==
    (ReadBeforeAttach /\ ctx_read.link \in GeneratorClassSlots)
        => ctx_read.out = AssertionError

\* C15: reading a guarded link of a generator class before it is attached
\* fails an assertion; reading exc_regs, send_arg_reg or stop_iter_value_reg
\* before it is assigned gives None and does not fail.
C15_LinkReadFailsSlotReadIsNone ==
    ReadBeforeAttach =>
        /\ ctx_read.link \in GeneratorClassLinks => ctx_read.out = AssertionError
        /\ ctx_read.link \in GeneratorClassSlots => ctx_read.out = None

\* send_arg_reg was read as None while another register was attached.
C15_Witness ==
    /\ ReadBeforeAttach
    /\ ctx_read.link = "send_arg_reg"
    /\ ctx_read.out = None
    /\ gen_class["next_label_reg"] # None

\* C16: the merge decision is true exactly for a generator or coroutine that
\* is neither nested nor contains nested functions.
C16_MergeDecision ==
    (ctx_read # NotRun /\ ctx_read.link = "can_merge_generator_and_env_classes") =>
        ctx_read.out = Some(/\ fn_info.fitem.is_generator \/ fn_info.fitem.is_coroutine
                            /\ ~fn_info.is_nested
                            /\ ~fn_info.contains_nested)

\* A generator that contains nested functions is not merged.
C16_Witness ==
    /\ ctx_read # NotRun
    /\ ctx_read.link = "can_merge_generator_and_env_classes"
    /\ fn_info.fitem.is_generator
    /\ ~fn_info.is_nested
    /\ fn_info.contains_nested
    /\ ctx_read.out = Some(FALSE)

\* --------------------------------- properties of the generator state machine

\* C17: once the resume label holds the exhausted sentinel, every resume, send
\* and throw leaves it there, enters no continuation block and gives a
\* terminal outcome.
C17_ExhaustedIsAbsorbing ==
    [][(gen_label = Exhausted /\ gen_run' # NotRun) =>
          /\ gen_label' = Exhausted
          /\ gen_run'.entered = None
          /\ gen_run'.out \in Terminal]_vars

\* An exhausted generator was resumed by a send: it entered no block and
\* stopped.
C17_Witness ==
    /\ gen_label = Exhausted
    /\ gen_run # NotRun
    /\ gen_run.from = Exhausted
    /\ gen_run.op.name = "send"
    /\ gen_run.entered = None
    /\ gen_run.out = StopIteration

\* ------------------------------------- properties of the environment class

\* C18: after any sequence of captures by any nested functions the environment
\* class holds exactly one slot per distinct captured variable.
C18_OneSlotPerCapturedVariable ==
    /\ Range(env_slots) = {c[2] : c \in captures}
    /\ \A i, j \in DOMAIN env_slots : env_slots[i] = env_slots[j] => i = j

\* Two nested functions captured the same variable: it has one slot.
C18_Witness ==
    /\ <<"inner1", "x">> \in captures
    /\ <<"inner2", "x">> \in captures
    /\ <<"inner2", "y">> \in captures
    /\ Len(env_slots) = 2

\* ------------------------------------------- properties of truncate_literal

RECURSIVE Pow2(_)
Pow2(n) == IF n = 0 THEN 1 ELSE 2 * Pow2(n - 1)

\* y is the value of x in two's complement of w bits, for w up to 16: it is
\* congruent to x modulo 2^w and lies in 0 .. 2^w - 1 when unsigned, in
\* -2^(w-1) .. 2^(w-1) - 1 when signed.
TwosComplement(x, y, w, signed) ==
    /\ y % Pow2(w) = x % Pow2(w)
    /\ IF signed
       THEN -Pow2(w - 1) <= y /\ y < Pow2(w - 1)
       ELSE 0 <= y /\ y < Pow2(w)

\* C19: the truncation of a literal x to a target of w bits is an Integer of
\* the target type whose value is x in two's complement of w bits (which, for
\* a signed target of 32 bits or more, is x itself for every literal of 32
\* bits); truncating the result again changes nothing; a value that is not a
\* literal is returned unchanged.
C19_TruncationIsTwosComplement ==
    trunc # NotRun =>
        IF trunc.value.v = "Integer"
        THEN /\ trunc.out.v = "Integer"
             /\ trunc.out.type = trunc.rtype
             /\ IF size(trunc.rtype) <= 2
                THEN TwosComplement(trunc.value.value, trunc.out.value,
                                    8 * size(trunc.rtype), is_signed(trunc.rtype))
                ELSE trunc.out.value = trunc.value.value
             /\ trunc.again = trunc.out
        ELSE trunc.out = trunc.value /\ trunc.again = trunc.value

\* 200 was truncated to a signed target of 8 bits and gave -56.
C19_Witness ==
    /\ trunc # NotRun
    /\ trunc.value = Integer(200, short_int_rprimitive)
    /\ size(trunc.rtype) = 1
    /\ is_signed(trunc.rtype)
    /\ trunc.out.value = -56

\* --------------------------------- properties of the native-int conversions

\* The target type of each conversion rule.
ConversionTarget(f) ==
    CASE f = "translate_i64" -> int64_rprimitive
      [] f = "translate_i32" -> int32_rprimitive
      [] f = "translate_i16" -> int16_rprimitive
      [] f = "translate_u8" -> uint8_rprimitive

\* The rule the caller holds the result of is a conversion applied to one
\* positional argument of a fixed-width type.
FixedWidthConversion ==
    /\ tried # NotRun
    /\ tried.f \in {"translate_i64", "translate_i32", "translate_i16", "translate_u8"}
    /\ tried.expr.arg_kinds = <<ARG_POS>>
    /\ is_fixed_width_rtype(node_type(tried.expr.args[1]))

\* C20: a conversion of a fixed-width argument evaluates the argument and
\* then emits nothing more when source and target are the same type, a
\* truncation to the target when the source is wider, and an extension to
\* the target when it is narrower, signed exactly when the source is signed.
C20_ConversionByWidthAndSign ==
    FixedWidthConversion =>
        LET arg == tried.expr.args[1]
            src == node_type(arg)
            tgt == ConversionTarget(tried.f)
            out == tried.out
        IN  /\ out.exc = None
            /\ out.ops[1] = AcceptOp(arg)
            /\ IF src = tgt
               THEN Len(out.ops) = 1 /\ out.val = Accepted(arg)
               ELSE /\ Len(out.ops) = 2
                    /\ out.val = Added(out.ops[2])
                    /\ out.ops[2].src = Accepted(arg)
                    /\ out.ops[2].type = tgt
                    /\ IF size(src) > size(tgt)
                       THEN out.ops[2].op = "Truncate"
                       ELSE /\ out.ops[2].op = "Extend"
                            /\ out.ops[2].signed = is_signed(src)

\* i16(e) for e of type u8: a zero extension.
C20_Witness ==
    /\ FixedWidthConversion
    /\ tried.f = "translate_i16"
    /\ node_type(tried.expr.args[1]) = uint8_rprimitive
    /\ tried.out.ops[2].op = "Extend"
    /\ ~tried.out.ops[2].signed
    /\ tried.out.ops[2].type = int16_rprimitive

\* ------------------------------- properties of the conversion of literals

\* The rule the caller holds the result of is a conversion applied to one
\* positional argument that is an integer literal.
LiteralConversion ==
    /\ tried # NotRun
    /\ tried.f \in {"translate_i64", "translate_i32", "translate_i16", "translate_u8"}
    /\ tried.expr.arg_kinds = <<ARG_POS>>
    /\ tried.expr.args[1].cls = "IntExpr"

\* The rule coerced this operand to its target and emitted nothing else.
CoercedOperand(operand) ==
    /\ tried.out.val = Coerced(operand, ConversionTarget(tried.f))
    /\ tried.out.ops = <<AcceptOp(tried.expr.args[1]),
                         CoerceOp(operand, ConversionTarget(tried.f))>>

\* The value coerced is a literal of the target type, whose value is that of
\* the argument in two's complement of the width of the target.
OperandIsTruncatedLiteral ==
    LET x == tried.expr.args[1].value
        tgt == ConversionTarget(tried.f)
        operand == tried.out.val.src
    IN  /\ tried.out.exc = None
        /\ tried.out.val.v = "coerce"
        /\ CoercedOperand(operand)
        /\ operand.v = "Integer"
        /\ operand.type = tgt
        /\ IF size(tgt) <= 2
           THEN TwosComplement(x, operand.value, 8 * size(tgt), is_signed(tgt))
           ELSE operand.value = x

\* C21 as stated: each of the four conversions truncates a literal argument
\* to the width of its target, and coerces the truncated literal.
C21_LiteralTruncatedBeforeCoercion ==
    LiteralConversion => OperandIsTruncatedLiteral

\* C21: i32, i16 and u8 truncate a literal argument to the width of their
\* target and coerce the truncated literal; i64 coerces the literal as
\* builder.accept returned it.
C21_TruncatedExceptForI64 ==
    LiteralConversion =>
        IF tried.f = "translate_i64"
        THEN CoercedOperand(Accepted(tried.expr.args[1]))
        ELSE OperandIsTruncatedLiteral

\* u8(300): the literal was truncated to 44, typed u8, and then coerced.
C21_Witness ==
    /\ LiteralConversion
    /\ tried.f = "translate_u8"
    /\ tried.expr.args[1] = IntExpr(300)
    /\ tried.out.val = Coerced(Integer(44, uint8_rprimitive), uint8_rprimitive)


\* ------------------------------------------------------------ C22, C23
\* str.encode(encoding="utf-8", errors="strict") is lowered by
\* str_encode_fast_path, which reads the first two arguments of the call.

EncodeCall ==
    /\ tried # NotRun
    /\ tried.f = "str_encode_fast_path"
    /\ tried.expr.callee.cls = "MemberExpr"

\* The positions of the arguments the rule reads.
ReadArgs == {i \in DOMAIN tried.expr.args : i <= 2}

ReadLiteral == \A i \in ReadArgs : tried.expr.args[i].cls = "StrExpr"

PositionalOrNamed(i) == tried.expr.arg_kinds[i] \in {ARG_POS, ARG_NAMED}

\* Argument i gives the parameter at the position pos: by its name or by its
\* own position.
Gives(i, name, pos) ==
    \/ tried.expr.arg_kinds[i] = ARG_NAMED /\ tried.expr.arg_names[i] = name
    \/ tried.expr.arg_kinds[i] = ARG_POS /\ i = pos

\* The value a parameter resolves to: that of the last argument giving it,
\* its default when no argument does.
Resolved(name, pos, default) ==
    LET givers == {i \in ReadArgs : Gives(i, name, pos)}
    IN  IF givers = {}
        THEN default
        ELSE tried.expr.args[CHOOSE i \in givers : \A j \in givers : j <= i].value

ResolvedEncoding == Resolved("encoding", 1, Text_utf8)

ResolvedErrors == Resolved("errors", 2, Text_strict)

\* Lower-cased, with "-" and "_" removed.
Normalized(text) == lower(SelectSeq(text, LAMBDA c : c \notin {"-", "_"}))

Utf8Aliases ==
    { <<"u", "8">>, <<"u", "t", "f">>, <<"u", "t", "f", "8">>,
      <<"c", "p", "6", "5", "0", "0", "1">> }

AsciiAliases ==
    { <<"6", "4", "6">>, <<"a", "s", "c", "i", "i">>, <<"u", "s", "a", "s", "c", "i", "i">> }

Latin1Aliases ==
    { <<"i", "s", "o", "8", "8", "5", "9", "1">>, <<"8", "8", "5", "9">>,
      <<"c", "p", "8", "1", "9">>, <<"l", "a", "t", "i", "n">>,
      <<"l", "a", "t", "i", "n", "1">>, <<"l", "1">> }

FastRoutine(encoding) ==
    CASE encoding \in Utf8Aliases -> "str_encode_utf8_strict"
      [] encoding \in AsciiAliases -> "str_encode_ascii_strict"
      [] encoding \in Latin1Aliases -> "str_encode_latin1_strict"

\* The rule evaluated the receiver and emitted one call of the routine on it.
ResolvedTo(routine) ==
    LET receiver == tried.expr.callee.expr
    IN  tried.out = Emitted(InstrValue(routine, <<Accepted(receiver)>>),
                            <<AcceptOp(receiver), Instr(routine, <<Accepted(receiver)>>)>>)

\* C22: an encode call whose encoding and error-mode arguments are string
\* literals, given positionally or by name or left to their defaults utf8 and
\* strict, and whose error mode is strict, resolves to exactly the fast
\* routine of the alias set the normalized encoding is in.
C22_EncodeResolvesByAlias ==
    (/\ EncodeCall
     /\ ReadLiteral
     /\ \A i \in ReadArgs : PositionalOrNamed(i)
     /\ ResolvedErrors = Text_strict
     /\ Normalized(ResolvedEncoding) \in Utf8Aliases \cup AsciiAliases \cup Latin1Aliases)
        => ResolvedTo(FastRoutine(Normalized(ResolvedEncoding)))

\* s.encode("UTF-8") resolved to the UTF-8 routine.
C22_Witness ==
    /\ EncodeCall
    /\ tried.expr.args = <<StrExpr(Text_UTF_8)>>
    /\ tried.expr.arg_kinds = <<ARG_POS>>
    /\ ResolvedTo("str_encode_utf8_strict")

\* The encoding or the error mode is not a literal, or they are literals the
\* rule has no routine for.
Unsupported ==
    \/ ~ReadLiteral
    \/ /\ ReadLiteral
       /\ \/ ResolvedErrors # Text_strict
          \/ Normalized(ResolvedEncoding) \notin Utf8Aliases \cup AsciiAliases \cup Latin1Aliases

Ran(f) == run # NotRun /\ run.phase = "executed" /\ run.f = f

\* The elements that decide the reduction: the true ones for any, the false
\* ones for all.
Deciding(f) ==
    {i \in DOMAIN run.env.elems : (run.env.elems[i] # 0) = (f = "translate_any_call")}

First(S) == CHOOSE i \in S : \A j \in S : i <= j

\* The loop evaluated the element expression for exactly the first n elements.
EvaluatedFirst(n) == run.final.trace = [i \in 1..n |-> EvalElem(i)]

InitialOf(f) == IF f = "translate_any_call" THEN 0 ELSE 1

Reduced(f) ==
    Ran(f) =>
        /\ run.final.exc = None
        /\ run.final.jump = None
        /\ IF Deciding(f) = {}
           THEN /\ run.final.reg = Some(InitialOf(f))
                /\ EvaluatedFirst(Len(run.env.elems))
           ELSE /\ run.final.reg = Some(1 - InitialOf(f))
                /\ EvaluatedFirst(First(Deciding(f)))

\* C24: the loop emitted for any or all over a comprehension starts the
\* result at false (any) or true (all), flips it at the first element that
\* is true (any) or false (all) and leaves the loop there, evaluating no
\* later element; when no element decides, every element is evaluated and the
\* result keeps its initial value.
C24_ReductionExitsEarly == Reduced("translate_any_call") /\ Reduced("translate_all_call")

\* all over the elements 1, 0, 1: false after two elements.
C24_Witness ==
    /\ Ran("translate_all_call")
    /\ run.env.elems = <<1, 0, 1>>
    /\ run.final.reg = Some(0)
    /\ EvaluatedFirst(2)


\* ------------------------------------------------------------ C25
\* isinstance(x, C) and isinstance(x, (C, D)) on compiled classes.

\* The classes the second argument names, when it is a class reference or a
\* tuple of class references.
CandidateRefs(cls) == IF cls.cls = "TupleExpr" THEN cls.items ELSE <<cls>>

IsinstanceOfClasses ==
    /\ tried # NotRun
    /\ tried.f = "translate_isinstance"
    /\ tried.expr.arg_kinds = <<ARG_POS, ARG_POS>>
    /\ tried.expr.args[2].cls \in {"NameExpr", "MemberExpr", "TupleExpr"}
    /\ \A i \in DOMAIN CandidateRefs(tried.expr.args[2]) :
          /\ CandidateRefs(tried.expr.args[2])[i].cls \in {"NameExpr", "MemberExpr"}
          /\ CandidateRefs(tried.expr.args[2])[i].class_ir # None

Candidates ==
    [i \in DOMAIN CandidateRefs(tried.expr.args[2]) |-> CandidateRefs(tried.expr.args[2])[i].class_ir]

\* An extension class that inherits from no interpreted class and allows no
\* interpreted subclasses.
StableLayout(ir) == ir.is_ext_class /\ ~ir.inherits_python /\ ~ir.allow_interpreted_subclasses

\* The rule evaluated the operand, borrowed or not, and emitted the check of
\* it against the candidate classes.
CheckedAgainstCandidates(borrowed) ==
    /\ tried.out.val = InstrValue("isinstance_helper", <<Accepted(tried.expr.args[1]), Candidates>>)
    /\ tried.out.ops = << AcceptBorrowOp(tried.expr.args[1], borrowed),
                          Instr("isinstance_helper", <<Accepted(tried.expr.args[1]), Candidates>>) >>

\* C25 as stated: the rule resolves to the check against the candidate
\* classes when every candidate has a stable layout and declines when some
\* candidate has not.
C25_DeclinesUnstableLayout ==
    IsinstanceOfClasses =>
        IF \A i \in DOMAIN Candidates : StableLayout(Candidates[i])
        THEN CheckedAgainstCandidates(TRUE)
        ELSE tried.out.val = None /\ tried.out.ops = <<>>

\* C25: isinstance on compiled candidate classes always resolves to the
\* check against them; the operand is borrowed for the check exactly when
\* every candidate has a stable layout.
C25_ChecksCompiledClasses ==
    IsinstanceOfClasses =>
        CheckedAgainstCandidates(\A i \in DOMAIN Candidates : StableLayout(Candidates[i]))

\* isinstance(x, N), N with a stable layout: the check on the borrowed operand.
C25_Witness ==
    /\ IsinstanceOfClasses
    /\ tried.expr.args[2] = Ref("m.N", ClassN)
    /\ CheckedAgainstCandidates(TRUE)


\* ------------------------------------------------------------ C26
\* Boolean literal arguments.

\* What an expression resolves to: the names builtins.True and
\* builtins.False resolve, nothing else does.
LiteralOf(expr) ==
    IF expr = Ref("builtins.True", None) THEN Some(TRUE)
    ELSE IF expr = Ref("builtins.False", None) THEN Some(FALSE)
    ELSE None

\* The step is a call of require_bool_literal_argument.
Requires == req = NotRun /\ req' # NotRun /\ req'.fn = "require_bool_literal_argument"

\* C26: parse_bool returns True for the name builtins.True, False for the
\* name builtins.False and None for every other expression;
\* require_bool_literal_argument returns the resolved value and reports
\* nothing when the expression resolves, otherwise it reports exactly one
\* literal-required failure and returns the default, so it does not return
\* None when a default is given.
C26_BoolLiteralOrOneFailure ==
    [][/\ (req' # NotRun /\ req'.fn = "parse_bool") => req'.out = LiteralOf(req'.expression)
       /\ Requires =>
            /\ IF LiteralOf(req'.expression) # None
               THEN req'.out = LiteralOf(req'.expression) /\ errors' = errors
               ELSE /\ req'.out = req'.default
                    /\ Len(errors') = Len(errors) + 1
                    /\ SubSeq(errors', 1, Len(errors)) = errors
                    /\ errors'[Len(errors')].code = "LITERAL_REQ"
                    /\ errors'[Len(errors')].ctx = req'.expression
            /\ req'.default # None => req'.out # None]_vars

\* builtins.True written as an attribute did not resolve: one failure was
\* reported and the default False returned.
C26_Witness ==
    /\ req # NotRun
    /\ req.fn = "require_bool_literal_argument"
    /\ req.expression = MemberExpr(Ref("builtins", None), "True", "builtins.True")
    /\ req.default = Some(FALSE)
    /\ req.out = Some(FALSE)
    /\ Len(errors) = 1


\* ------------------------------------------------------------ C27
\* Attempts read the registry.

\* C27: an attempt, of a function or a method, whether a rule commits or all
\* decline or the key has no list, leaves the registry as it was: the same
\* keys, each with the same specializers in the same order; so does the
\* return of an attempt.
C27_AttemptKeepsRegistry ==
    [][attempt' # attempt => specializers' = specializers /\ registered' = registered]_vars

\* m.f(...) has been attempted, nothing is registered for it, and the
\* registry has no key for it afterwards either, while the lists registered
\* for tuple are as they were.
C27_Witness ==
    /\ attempt # NotRun
    /\ attempt.expr.callee = Ref("m.f", None)
    /\ attempt.did.val = None
    /\ <<"m.f", None>> \notin DOMAIN specializers
    /\ registered >= Len(ModuleRegistrations)
    /\ Lookup(specializers, <<"builtins.tuple", None>>)
          = <<"translate_tuple_from_generator_call", "translate_safe_generator_call">>


\* ------------------------------------------------------------ C28
\* next(e for ...) and next(e for ..., default).

HasDefault == Len(run.expr.args) = 2

\* The evaluations of the default expression, once when there is one.
DefaultEvaluated == IF HasDefault THEN <<EvalArg(run.expr.args[2])>> ELSE <<>>

\* The value of the default expression.
DefaultValue ==
    IF run.expr.args[2].cls = "IntExpr" THEN run.expr.args[2].value ELSE run.env.x

\* C28: the code emitted for next over a comprehension produces the first
\* element and leaves the loop, evaluating no later element; when the
\* comprehension produces nothing it produces the default if there is one
\* and raises StopIteration otherwise; the default expression is evaluated
\* exactly once, before the loop, whether or not an element is found.
C28_NextTakesFirstOrDefault ==
    Ran("translate_next_call") =>
        /\ run.final.jump = None
        /\ IF run.env.elems # <<>>
           THEN /\ run.final.exc = None
                /\ run.final.reg = Some(run.env.elems[1])
                /\ run.final.trace = DefaultEvaluated \o <<EvalElem(1)>>
           ELSE /\ run.final.trace = DefaultEvaluated
                /\ IF HasDefault
                   THEN run.final.exc = None /\ run.final.reg = Some(DefaultValue)
                   ELSE run.final.exc = Some("StopIteration")

\* next(e for ..., x) over the elements 2, 0: the default was evaluated,
\* then the first element, which is the result.
C28_Witness ==
    /\ Ran("translate_next_call")
    /\ HasDefault
    /\ run.expr.args[2] = x_object
    /\ run.env.elems = <<2, 0>>
    /\ run.env.x = 1
    /\ run.final.reg = Some(2)
    /\ run.final.trace = <<EvalArg(x_object), EvalElem(1)>>


\* ------------------------------------------------------------ C29
\* min(a, b) and max(a, b).

\* The value an argument expression has when the call runs.
ArgumentValue(node) == IF node.cls = "IntExpr" THEN node.value ELSE run.env.x

\* The second argument is strictly less (min) or strictly greater (max)
\* than the first.
SecondWins ==
    LET first == ArgumentValue(run.expr.args[1])
        second == ArgumentValue(run.expr.args[2])
    IN  IF run.expr.callee.fullname = "builtins.min" THEN second < first ELSE second > first

\* C29, at run time: the emitted code evaluates the first argument, then
\* the second, nothing else, and its result is the second argument exactly
\* when that is strictly less (min) or strictly greater (max) than the
\* first, and the first argument otherwise, ties included.
C29_MinMaxResult ==
    Ran("faster_min_max") =>
        /\ run.final.exc = None
        /\ run.final.jump = None
        /\ run.final.trace = <<EvalArg(run.expr.args[1]), EvalArg(run.expr.args[2])>>
        /\ LET returned == run.expr.args[IF SecondWins THEN 2 ELSE 1]
           IN  /\ run.final.reg = Some(ArgumentValue(returned))
               /\ run.final.src = Some(Coerced(Accepted(returned), run.expr.rtype))

\* C29, at compile time: the rule emits for exactly two positional
\* arguments and declines, emitting nothing, for every other shape.
C29_MinMaxShape ==
    (run # NotRun /\ run.f = "faster_min_max") =>
        IF run.expr.arg_kinds = <<ARG_POS, ARG_POS>>
        THEN run.out.val # None /\ run.out.exc = None
        ELSE run.out = Declined

\* C29: the two-argument min/max rule evaluates the first argument before
\* the second and returns the second exactly when it is strictly less (min)
\* or strictly greater (max) than the first, the first otherwise; it
\* declines without emission for any shape but two positional arguments.
C29_MinMaxStrictSecond == C29_MinMaxResult /\ C29_MinMaxShape

\* min(1, x) with x = 1, a tie: the first argument was returned.
C29_Witness ==
    /\ Ran("faster_min_max")
    /\ run.expr.callee.fullname = "builtins.min"
    /\ run.expr.args = <<IntExpr(1), x_object>>
    /\ run.env.x = 1
    /\ run.final.src = Some(Coerced(Accepted(IntExpr(1)), run.expr.rtype))


\* ------------------------------------------------------------ C30
\* tuple(e for ...)

TupleOfGenerator ==
    /\ attempt # NotRun
    /\ attempt.kind = "function"
    /\ attempt.expr.callee.fullname = "builtins.tuple"
    /\ attempt.expr.arg_kinds = <<ARG_POS>>
    /\ attempt.expr.args[1].cls = "GeneratorExpr"

\* C30: for tuple(<generator expression>) with one positional argument the
\* pre-sized rule is called first; when it declines, the safe-generator rule
\* registered after it under the same key is called next and returns a
\* Value; so the attempt returns a Value and the call does not fall through
\* to the generic call path.
C30_TupleNeverFallsThrough ==
    TupleOfGenerator =>
        LET calls == attempt.did.calls
        IN  /\ Len(calls) >= 1
            /\ calls[1].f = "translate_tuple_from_generator_call"
            /\ IF calls[1].out.val # None
               THEN Len(calls) = 1 /\ attempt.did.val = calls[1].out.val
               ELSE /\ Len(calls) = 2
                    /\ calls[2].f = "translate_safe_generator_call"
                    /\ calls[2].out.val # None
                    /\ attempt.did.val = calls[2].out.val
            /\ attempt.did.val # None
            /\ attempt.did.exc = None

\* tuple(e for ... in d) over a dict: the pre-sized rule declined and the
\* safe-generator rule committed.
C30_Witness ==
    /\ TupleOfGenerator
    /\ attempt.expr.args = <<gen_dict>>
    /\ Len(attempt.did.calls) = 2
    /\ attempt.did.calls[1].out = Declined
    /\ attempt.did.val = attempt.did.calls[2].out.val
    /\ attempt.did.val # None

====
